---- MODULE Spec2Model ----
(***************************************************************************)
(* Tents solver (Shruhath/Tents-DAA): the line enumerator and intersection *)
(* step (solver_utils.py), the region decomposer (solver_utils.py), the    *)
(* local heuristics (smart_bot.py), the level generator and board model    *)
(* (tents.py) and the backtracking bot with its move stream (back_bot.py). *)
(*                                                                         *)
(* Python indices are kept 0-based: a cell is <<r, c>>, a grid is a        *)
(* function from cells to cell values, a line is a TLA+ sequence whose     *)
(* element i + 1 is the Python element i.                                  *)
(***************************************************************************)
EXTENDS Integers, Sequences, FiniteSets, TLC

VARIABLES
    mode,             \* which driver owns the run: "line", "dnc", "graph", "race" or "bot"
    \* ---- TentsGame (tents.py) ----
    size, trees, row_constraints, col_constraints, player_grid, solution_grid,
    \* ---- BackBot (back_bot.py) ----
    solution,         \* self._solution: NoSolution or the cached board
    focus_tree,       \* self.focus_tree
    pc,               \* position of the running call
    ret,              \* value returned by the last get_best_move call
    board,            \* the private working copy of the grid
    row_remaining, col_remaining,
    arg_remaining,    \* remaining_trees argument of the pending recursive call
    stack,            \* suspended _solve_recursive frames, root first
    entered,          \* observer: what each running _solve_recursive call was entered with
    \* ---- solve_line_dp / find_forced_moves call (solver_utils.py) ----
    dp_length, dp_target, dp_line, dp_fixed, dp_configs, dp_forced,
    \* ---- solve_with_dnc call (solver_utils.py) ----
    dnc_before,       \* player_grid when solve_with_dnc was entered
    dnc_graph,        \* graph built by build_constraint_graph
    dnc_components,   \* components found by find_connected_components
    dnc_progress,     \* value returned by the call
    \* ---- test_smart_vs_greedy (test_tents.py) ----
    greedy_grid,      \* greedy_game.player_grid
    smart_grid,       \* smart_game.player_grid
    \* ---- observer ----
    history           \* the <<live grid, value>> pairs get_best_move has returned on this game

gameVars == <<size, trees, row_constraints, col_constraints, player_grid, solution_grid>>
botVars  == <<solution, focus_tree, ret, board, row_remaining, col_remaining,
              arg_remaining, stack, entered>>
dpVars   == <<dp_length, dp_target, dp_line, dp_fixed, dp_configs, dp_forced>>
dncVars  == <<dnc_before, dnc_graph, dnc_components, dnc_progress>>
raceVars == <<greedy_grid, smart_grid>>
vars     == <<mode, pc, gameVars, botVars, dpVars, dncVars, raceVars, history>>

(***************************************************************************)
(* Cell alphabet (tents.py)                                                *)
(***************************************************************************)
EMPTY == 0
TREE  == 1
TENT  == 2
GRASS == 3

\* Python's None where a tuple is expected, and BackBot._solution = None.
None == <<>>
NoSolution == <<>>

(***************************************************************************)
(* Bounds of the model                                                     *)
(***************************************************************************)
MaxLen == 4        \* longest line handed to solve_line_dp in SpecLine
DncSize == 3       \* side of the enumerated boards of SpecDnc and SpecGraph
MaxDncTarget == 1  \* largest row / column target of the boards of SpecDnc
MaxMarks == 2      \* most marked cells of a board of SpecDnc that has no wall
GenSize == 3       \* side of the boards generate_level fills in Spec
NumTents == 2      \* num_tents handed to generate_level in Spec
MaxTarget == 2     \* largest row / column target a test assigns in Spec
MaxEdits == 2      \* calls of get_best_move after which the caller may edit the live grid in SpecEdit

Range(n) == 0 .. (n - 1)
Cells(n) == Range(n) \X Range(n)
Rank(n, cell) == cell[1] * n + cell[2]

\* The first element of a non-empty set of naturals / of cells in scan order.
MinOf(S) == CHOOSE x \in S : \A y \in S : x <= y
FirstCell(n, S) == CHOOSE x \in S : \A y \in S : Rank(n, x) <= Rank(n, y)

RECURSIVE SeqOfSet(_)
\* The elements of a finite set of naturals as an ascending sequence.
SeqOfSet(S) == IF S = {} THEN <<>> ELSE <<MinOf(S)>> \o SeqOfSet(S \ {MinOf(S)})

(***************************************************************************)
(* solve_line_dp (solver_utils.py 18-100)                                  *)
(***************************************************************************)
RECURSIVE suffix_trees(_, _, _)
suffix_trees(length, current_line, i) ==
    IF i >= length THEN 0
    ELSE suffix_trees(length, current_line, i + 1)
         + (IF current_line[i + 1] = TREE THEN 1 ELSE 0)

\* Prepend(v, ss): the tuple ((v,) + s for s in ss)
Prepend(v, ss) == [k \in 1 .. Len(ss) |-> <<v>> \o ss[k]]

RECURSIVE _recurse(_, _, _, _, _, _, _)
_recurse(length, target_count, current_line, fixed_positions, index, placed, last_was_tent) ==
    IF index = length
    THEN IF placed = target_count THEN << <<>> >> ELSE <<>>
    ELSE LET cell == current_line[index + 1]
             remaining == length - index
             max_possible == placed + (remaining - suffix_trees(length, current_line, index))
             Rec(p, l) == _recurse(length, target_count, current_line, fixed_positions,
                                   index + 1, p, l)
         IN  IF cell = TREE THEN Prepend(TREE, Rec(placed, FALSE))
             ELSE IF placed > target_count THEN <<>>
             ELSE IF max_possible < target_count THEN <<>>
             ELSE IF index \in fixed_positions /\ cell = TENT
                  THEN IF last_was_tent THEN <<>>
                       ELSE Prepend(TENT, Rec(placed + 1, TRUE))
             ELSE IF index \in fixed_positions /\ cell = GRASS
                  THEN Prepend(GRASS, Rec(placed, FALSE))
             ELSE (IF ~last_was_tent THEN Prepend(TENT, Rec(placed + 1, TRUE)) ELSE <<>>)
                  \o Prepend(GRASS, Rec(placed, FALSE))

\* Variant: the scan starts as if a TENT preceded index 0.
solve_line_dp_after_tent(length, target_count, current_line, fixed_positions) ==
    _recurse(length, target_count, current_line, fixed_positions, 0, 0, TRUE)

solve_line_dp(length, target_count, current_line, fixed_positions) ==
    _recurse(length, target_count, current_line, fixed_positions, 0, 0, FALSE)

(***************************************************************************)
(* find_forced_moves (solver_utils.py 103-134): the dict is a function     *)
(* whose domain is the set of forced indices; it iterates in ascending     *)
(* index order, the order of insertion.                                    *)
(***************************************************************************)
EmptyDict == [i \in {} |-> 0]

\* Variant: the first configuration alone decides, the others are not intersected.
find_forced_moves_first_config(valid_configs) ==
    IF Len(valid_configs) = 0 THEN EmptyDict
    ELSE [i \in {j \in Range(Len(valid_configs[1])) : valid_configs[1][j + 1] \in {TENT, GRASS}}
            |-> valid_configs[1][i + 1]]

find_forced_moves(valid_configs) ==
    IF Len(valid_configs) = 0 THEN EmptyDict
    ELSE LET length == Len(valid_configs[1])
             values(i) == {valid_configs[k][i + 1] : k \in 1 .. Len(valid_configs)}
             val(i) == CHOOSE v \in values(i) : TRUE
         IN  [i \in {j \in Range(length) :
                        Cardinality(values(j)) = 1 /\ val(j) \in {TENT, GRASS}}
                |-> val(i)]

(***************************************************************************)
(* Board helpers (tents.py)                                                *)
(***************************************************************************)
\* _get_orthogonal_neighbors (tents.py 95-102): N, S, W, E, in bounds.
OrthoOffsets == << <<-1, 0>>, <<1, 0>>, <<0, -1>>, <<0, 1>> >>

RECURSIVE FilterCells(_, _, _)
\* The subsequence of the cells of s that lie in the set S.
FilterCells(s, S, k) ==
    IF k > Len(s) THEN <<>>
    ELSE (IF s[k] \in S THEN <<s[k]>> ELSE <<>>) \o FilterCells(s, S, k + 1)

\* The 8 neighbours (King's move) of a cell, in (dr, dc) scan order.
KingOffsets == << <<-1, -1>>, <<-1, 0>>, <<-1, 1>>, <<0, -1>>,
                  <<0, 1>>, <<1, -1>>, <<1, 0>>, <<1, 1>> >>
KingSeq(cell) == [k \in 1 .. 8 |-> <<cell[1] + KingOffsets[k][1], cell[2] + KingOffsets[k][2]>>]

\* Variant: the diagonal neighbours are listed too.
_get_orthogonal_neighbors_with_diagonals(n, r, c) ==
    FilterCells(KingSeq(<<r, c>>), Cells(n), 1)

_get_orthogonal_neighbors(n, r, c) ==
    FilterCells([k \in 1 .. 4 |-> <<r + OrthoOffsets[k][1], c + OrthoOffsets[k][2]>>],
                Cells(n), 1)
King(n, cell) == {x \in Cells(n) : x # cell /\ x[1] - cell[1] \in -1 .. 1
                                             /\ x[2] - cell[2] \in -1 .. 1}
Ortho(n, cell) == {x \in Cells(n) : \/ x[1] = cell[1] /\ x[2] - cell[2] \in {-1, 1}
                                    \/ x[2] = cell[2] /\ x[1] - cell[1] \in {-1, 1}}

SeqRange(s) == {s[k] : k \in 1 .. Len(s)}

\* The cells of a set as a sequence in row-major order.
CellSeq(n, S) ==
    FilterCells([k \in 1 .. n * n |-> <<(k - 1) \div n, (k - 1) % n>>], S, 1)

RowLine(n, grid, r) == [i \in 1 .. n |-> grid[<<r, i - 1>>]]
ColLine(n, grid, c) == [i \in 1 .. n |-> grid[<<i - 1, c>>]]
RowTents(n, grid, r) == Cardinality({c \in Range(n) : grid[<<r, c>>] = TENT})
ColTents(n, grid, c) == Cardinality({r \in Range(n) : grid[<<r, c>>] = TENT})

(***************************************************************************)
(* build_constraint_graph (solver_utils.py 141-177)                        *)
(***************************************************************************)
\* Variant: edges to the 4 orthogonal neighbours only.
build_constraint_graph_orthogonal(n, grid) ==
    LET nodes == {x \in Cells(n) : grid[x] = EMPTY}
    IN  [x \in nodes |-> FilterCells(_get_orthogonal_neighbors(n, x[1], x[2]), nodes, 1)]

build_constraint_graph(n, grid) ==
    LET nodes == {x \in Cells(n) : grid[x] = EMPTY}
    IN  [x \in nodes |-> FilterCells(KingSeq(x), nodes, 1)]

(***************************************************************************)
(* find_connected_components (solver_utils.py 180-210): BFS from every     *)
(* unvisited node, nodes taken in the dict's (row-major) order.            *)
(***************************************************************************)
RECURSIVE bfs(_, _, _, _)
bfs(graph, queue, visited, component) ==
    IF queue = <<>> THEN [component |-> component, visited |-> visited]
    ELSE LET current == Head(queue)
             fresh == FilterCells(graph[current], DOMAIN graph \ visited, 1)
         IN  bfs(graph, Tail(queue) \o fresh, visited \cup SeqRange(fresh),
                 component \cup {current})

RECURSIVE components_loop(_, _, _, _)
\* b is the result of the BFS started at the head of nodes
component_found(graph, nodes, components, b) ==
    components_loop(graph, Tail(nodes), b.visited, Append(components, b.component))

components_loop(graph, nodes, visited, components) ==
    IF nodes = <<>> THEN components
    ELSE IF Head(nodes) \in visited
         THEN components_loop(graph, Tail(nodes), visited, components)
    ELSE component_found(graph, nodes, components,
                         bfs(graph, <<Head(nodes)>>, visited \cup {Head(nodes)}, {}))

\* Variant: no traversal, every node is a component of its own.
find_connected_components_singletons(n, graph) ==
    [k \in 1 .. Cardinality(DOMAIN graph) |-> {CellSeq(n, DOMAIN graph)[k]}]

find_connected_components(n, graph) ==
    components_loop(graph, CellSeq(n, DOMAIN graph), {}, <<>>)

(***************************************************************************)
(* The line step shared by _apply_dp_to_lines (solver_utils.py 222-249)    *)
(* and solve_with_dnc (solver_utils.py 289-316): enumerate one row or      *)
(* column and write its forced moves into the EMPTY cells.  st is          *)
(* [grid, progress].                                                       *)
(***************************************************************************)
Fixed(line) == {i \in Range(Len(line)) : line[i + 1] \in {TENT, GRASS}}

\* The write loop of a row (solver_utils.py 231-235, 298-302)
write_row(n, st, r, forced) ==
    LET written == {x \in Cells(n) : x[1] = r /\ x[2] \in DOMAIN forced /\ st.grid[x] = EMPTY}
    IN  [grid |-> [x \in Cells(n) |-> IF x \in written THEN forced[x[2]] ELSE st.grid[x]],
         progress |-> st.progress \/ written # {}]

\* `if not configs: continue`, else the intersection and the write loop
forced_row(n, st, r, configs) ==
    IF Len(configs) = 0 THEN st ELSE write_row(n, st, r, find_forced_moves(configs))

dp_row(n, st, r, target) ==
    forced_row(n, st, r, solve_line_dp(n, target, RowLine(n, st.grid, r),
                                       Fixed(RowLine(n, st.grid, r))))

\* The write loop of a column (solver_utils.py 246-250, 313-317)
write_col(n, st, c, forced) ==
    LET written == {x \in Cells(n) : x[2] = c /\ x[1] \in DOMAIN forced /\ st.grid[x] = EMPTY}
    IN  [grid |-> [x \in Cells(n) |-> IF x \in written THEN forced[x[1]] ELSE st.grid[x]],
         progress |-> st.progress \/ written # {}]

forced_col(n, st, c, configs) ==
    IF Len(configs) = 0 THEN st ELSE write_col(n, st, c, find_forced_moves(configs))

dp_col(n, st, c, target) ==
    forced_col(n, st, c, solve_line_dp(n, target, ColLine(n, st.grid, c),
                                       Fixed(ColLine(n, st.grid, c))))

RECURSIVE dp_rows(_, _, _, _)
dp_rows(n, st, rows, rowc) ==
    IF rows = <<>> THEN st
    ELSE dp_rows(n, dp_row(n, st, Head(rows), rowc[Head(rows)]), Tail(rows), rowc)

RECURSIVE dp_cols(_, _, _, _)
dp_cols(n, st, cols, colc) ==
    IF cols = <<>> THEN st
    ELSE dp_cols(n, dp_col(n, st, Head(cols), colc[Head(cols)]), Tail(cols), colc)

\* Variant: the row loop alone, the column loop is left out.
_apply_dp_to_lines_rows_only(n, grid, rowc, colc) ==
    dp_rows(n, [grid |-> grid, progress |-> FALSE], SeqOfSet(Range(n)), rowc)

\* _apply_dp_to_lines (solver_utils.py 213-251)
_apply_dp_to_lines(n, grid, rowc, colc) ==
    dp_cols(n, dp_rows(n, [grid |-> grid, progress |-> FALSE], SeqOfSet(Range(n)), rowc),
            SeqOfSet(Range(n)), colc)

(***************************************************************************)
(* solve_with_dnc (solver_utils.py 254-318).  The rows and columns of a    *)
(* component are visited in ascending order, the iteration order of a      *)
(* Python set of small integers.                                           *)
(***************************************************************************)
RECURSIVE dnc_components_loop(_, _, _, _, _)
dnc_components_loop(n, st, components, rowc, colc) ==
    IF components = <<>> THEN st
    ELSE LET comp == Head(components)
             comp_rows == {x[1] : x \in comp}
             comp_cols == {x[2] : x \in comp}
             afterRows == dp_rows(n, st, SeqOfSet(comp_rows), rowc)
             afterCols == dp_cols(n, afterRows, SeqOfSet(comp_cols), colc)
         IN  dnc_components_loop(n, afterCols, Tail(components), rowc, colc)

\* solver_utils.py 273-318: the branch on the number of components
dnc_dispatch(n, grid, rowc, colc, components) ==
    IF Len(components) <= 1 THEN _apply_dp_to_lines(n, grid, rowc, colc)
    ELSE dnc_components_loop(n, [grid |-> grid, progress |-> FALSE], components, rowc, colc)

\* solver_utils.py 267-271: `if not graph: return False`
dnc_on_graph(n, grid, rowc, colc, graph) ==
    IF DOMAIN graph = {} THEN [grid |-> grid, progress |-> FALSE]
    ELSE dnc_dispatch(n, grid, rowc, colc, find_connected_components(n, graph))

solve_with_dnc(n, grid, rowc, colc) ==
    dnc_on_graph(n, grid, rowc, colc, build_constraint_graph(n, grid))

(***************************************************************************)
(* SmartBot.get_best_move (smart_bot.py 19-205).  A move is the tuple      *)
(* (r, c, move_type); the advisory cells_scanned count of SmartBot is not  *)
(* modelled.  Every heuristic returns its first hit in the scan order of   *)
(* its loops.                                                              *)
(***************************************************************************)
Move(cell, mt) == <<cell[1], cell[2], mt>>

EmptyIn(n, grid, S) == {x \in S : grid[x] = EMPTY}
RowCells(n, r) == {<<r, c>> : c \in Range(n)}
ColCells(n, c) == {<<r, c>> : r \in Range(n)}

\* Heuristic 1: Adjacency Exclusion (smart_bot.py 28-40)
h1_adjacency(n, grid) ==
    LET tents == {t \in Cells(n) : grid[t] = TENT /\ EmptyIn(n, grid, King(n, t)) # {}}
    IN  IF tents = {} THEN None
        ELSE Move(FirstCell(n, EmptyIn(n, grid, King(n, FirstCell(n, tents)))), GRASS)

\* Heuristic 2: Row/Col Saturation (smart_bot.py 42-62)
h2_saturation(n, grid, rowc, colc) ==
    LET rows == {r \in Range(n) : RowTents(n, grid, r) = rowc[r]
                                  /\ EmptyIn(n, grid, RowCells(n, r)) # {}}
        cols == {c \in Range(n) : ColTents(n, grid, c) = colc[c]
                                  /\ EmptyIn(n, grid, ColCells(n, c)) # {}}
    IN  IF rows # {} THEN Move(FirstCell(n, EmptyIn(n, grid, RowCells(n, MinOf(rows)))), GRASS)
        ELSE IF cols # {}
             THEN Move(FirstCell(n, EmptyIn(n, grid, ColCells(n, MinOf(cols)))), GRASS)
        ELSE None

\* Heuristic 3: Forced Tent (smart_bot.py 64-93)
h3_forced_tent(n, grid, rowc, colc) ==
    LET rows == {r \in Range(n) :
                    /\ EmptyIn(n, grid, RowCells(n, r)) # {}
                    /\ RowTents(n, grid, r) + Cardinality(EmptyIn(n, grid, RowCells(n, r)))
                         = rowc[r]}
        cols == {c \in Range(n) :
                    /\ EmptyIn(n, grid, ColCells(n, c)) # {}
                    /\ ColTents(n, grid, c) + Cardinality(EmptyIn(n, grid, ColCells(n, c)))
                         = colc[c]}
    IN  IF rows # {} THEN Move(FirstCell(n, EmptyIn(n, grid, RowCells(n, MinOf(rows)))), TENT)
        ELSE IF cols # {}
             THEN Move(FirstCell(n, EmptyIn(n, grid, ColCells(n, MinOf(cols)))), TENT)
        ELSE None

\* Variant: a tree that already has a TENT next to it is not skipped.
h4_isolated_tree_unchecked(n, grid) ==
    LET hit == {t \in Cells(n) :
                   /\ grid[t] = TREE
                   /\ Cardinality(EmptyIn(n, grid, Ortho(n, t))) = 1}
    IN  IF hit = {} THEN None
        ELSE Move(CHOOSE x \in EmptyIn(n, grid, Ortho(n, FirstCell(n, hit))) : TRUE, TENT)

\* Heuristic 4: Isolated Tree (smart_bot.py 95-113)
h4_isolated_tree(n, grid) ==
    LET hit == {t \in Cells(n) :
                   /\ grid[t] = TREE
                   /\ \A x \in Ortho(n, t) : grid[x] # TENT
                   /\ Cardinality(EmptyIn(n, grid, Ortho(n, t))) = 1}
    IN  IF hit = {} THEN None
        ELSE Move(CHOOSE x \in EmptyIn(n, grid, Ortho(n, FirstCell(n, hit))) : TRUE, TENT)

\* Heuristic 5: No-Man's Land (smart_bot.py 115-128)
h5_no_mans_land(n, grid) ==
    LET hit == {x \in Cells(n) : grid[x] = EMPTY /\ \A y \in Ortho(n, x) : grid[y] # TREE}
    IN  IF hit = {} THEN None ELSE Move(FirstCell(n, hit), GRASS)

\* Heuristic 6: Locked Candidates (smart_bot.py 130-196).  isRow tells the
\* row pass (132-161) from the column pass (164-196).
LockedTrees(n, trs, grid, isRow, k) ==
    {j \in 1 .. Len(trs) :
        /\ \A x \in Ortho(n, trs[j]) : grid[x] # TENT
        /\ EmptyIn(n, grid, Ortho(n, trs[j])) # {}
        /\ \A x \in EmptyIn(n, grid, Ortho(n, trs[j])) : (IF isRow THEN x[1] ELSE x[2]) = k}

Reserved(n, trs, grid, isRow, k) ==
    UNION {EmptyIn(n, grid, Ortho(n, trs[j])) : j \in LockedTrees(n, trs, grid, isRow, k)}

LockedFree(n, trs, grid, isRow, k) ==
    EmptyIn(n, grid, IF isRow THEN RowCells(n, k) ELSE ColCells(n, k))
        \ Reserved(n, trs, grid, isRow, k)

h6_locked(n, trs, grid, rowc, colc) ==
    LET rows == {r \in Range(n) :
                    /\ RowTents(n, grid, r) + Cardinality(LockedTrees(n, trs, grid, TRUE, r))
                         = rowc[r]
                    /\ LockedFree(n, trs, grid, TRUE, r) # {}}
        cols == {c \in Range(n) :
                    /\ ColTents(n, grid, c) + Cardinality(LockedTrees(n, trs, grid, FALSE, c))
                         = colc[c]
                    /\ LockedFree(n, trs, grid, FALSE, c) # {}}
    IN  IF rows # {} THEN Move(FirstCell(n, LockedFree(n, trs, grid, TRUE, MinOf(rows))), GRASS)
        ELSE IF cols # {}
             THEN Move(FirstCell(n, LockedFree(n, trs, grid, FALSE, MinOf(cols))), GRASS)
        ELSE None

\* SmartBot._solve_rows_and_cols (smart_bot.py 207-242)
RowForced(n, grid, r, target) ==
    LET row == RowLine(n, grid, r)
        forced == find_forced_moves(solve_line_dp(n, target, row, Fixed(row)))
    IN  {c \in DOMAIN forced : grid[<<r, c>>] = EMPTY}
RowForcedValue(n, grid, r, target, c) ==
    LET row == RowLine(n, grid, r)
    IN  find_forced_moves(solve_line_dp(n, target, row, Fixed(row)))[c]
ColForced(n, grid, c, target) ==
    LET col == ColLine(n, grid, c)
        forced == find_forced_moves(solve_line_dp(n, target, col, Fixed(col)))
    IN  {r \in DOMAIN forced : grid[<<r, c>>] = EMPTY}
ColForcedValue(n, grid, c, target, r) ==
    LET col == ColLine(n, grid, c)
    IN  find_forced_moves(solve_line_dp(n, target, col, Fixed(col)))[r]

_solve_rows_and_cols(n, grid, rowc, colc) ==
    LET rows == {r \in Range(n) : RowForced(n, grid, r, rowc[r]) # {}}
        cols == {c \in Range(n) : ColForced(n, grid, c, colc[c]) # {}}
    IN  IF rows # {}
        THEN LET r == MinOf(rows)
                 c == MinOf(RowForced(n, grid, r, rowc[r]))
             IN  Move(<<r, c>>, RowForcedValue(n, grid, r, rowc[r], c))
        ELSE IF cols # {}
        THEN LET c == MinOf(cols)
                 r == MinOf(ColForced(n, grid, c, colc[c]))
             IN  Move(<<r, c>>, ColForcedValue(n, grid, c, colc[c], r))
        ELSE None

\* The first heuristic that returns a move decides (each `return` of the body).
OrElse(m, later) == IF m # None THEN m ELSE later

\* Variant: heuristics 1 to 4 only.
SmartBot_get_best_move_four_heuristics(n, trs, grid, rowc, colc) ==
    OrElse(h1_adjacency(n, grid),
    OrElse(h2_saturation(n, grid, rowc, colc),
    OrElse(h3_forced_tent(n, grid, rowc, colc),
           h4_isolated_tree(n, grid))))

SmartBot_get_best_move(n, trs, grid, rowc, colc) ==
    OrElse(h1_adjacency(n, grid),
    OrElse(h2_saturation(n, grid, rowc, colc),
    OrElse(h3_forced_tent(n, grid, rowc, colc),
    OrElse(h4_isolated_tree(n, grid),
    OrElse(h5_no_mans_land(n, grid),
    OrElse(h6_locked(n, trs, grid, rowc, colc),
           _solve_rows_and_cols(n, grid, rowc, colc)))))))

\* GreedyBot.get_best_move (greedy_bot.py 8-226): the six heuristics, statement
\* for statement those of SmartBot.get_best_move, and no line solver after them.
GreedyBot_get_best_move(n, trs, grid, rowc, colc) ==
    OrElse(h1_adjacency(n, grid),
    OrElse(h2_saturation(n, grid, rowc, colc),
    OrElse(h3_forced_tent(n, grid, rowc, colc),
    OrElse(h4_isolated_tree(n, grid),
    OrElse(h5_no_mans_land(n, grid),
           h6_locked(n, trs, grid, rowc, colc))))))

\* The moves of the seven blocks of SmartBot.get_best_move (smart_bot.py 28-203),
\* each block taken on its own: block k returns heuristic_moves(...)[k], None
\* when it falls through to the next block.
heuristic_moves(n, trs, grid, rowc, colc) ==
    << h1_adjacency(n, grid),
       h2_saturation(n, grid, rowc, colc),
       h3_forced_tent(n, grid, rowc, colc),
       h4_isolated_tree(n, grid),
       h5_no_mans_land(n, grid),
       h6_locked(n, trs, grid, rowc, colc),
       _solve_rows_and_cols(n, grid, rowc, colc) >>

(***************************************************************************)
(* SmartBot.solve_iteratively, the propagation driver.  Its body is not in *)
(* smart_bot.py (back_bot.py 53 and test_tents.py 338 call it); it is      *)
(* modelled from section 4.4 of the specification: repeat (the heuristics  *)
(* until they stop, then the region step once), exit when a full pass      *)
(* commits no cell or the grid becomes infeasible (a commit would break a  *)
(* grid invariant, or a line has no completion).                           *)
(***************************************************************************)
SetCell(grid, cell, v) == [grid EXCEPT ![cell] = v]

\* The set(r, c, value) primitive accepts a commit that keeps the grid invariants.
CommitKeepsInvariants(n, grid, rowc, colc, m) ==
    LET cell == <<m[1], m[2]>>
    IN  /\ grid[cell] # TREE
        /\ m[3] = TENT =>
              /\ \A x \in King(n, cell) : grid[x] # TENT
              /\ RowTents(n, SetCell(grid, cell, TENT), cell[1]) <= rowc[cell[1]]
              /\ ColTents(n, SetCell(grid, cell, TENT), cell[2]) <= colc[cell[2]]

LineWithoutCompletion(n, grid, rowc, colc) ==
    \/ \E r \in Range(n) :
          Len(solve_line_dp(n, rowc[r], RowLine(n, grid, r), Fixed(RowLine(n, grid, r)))) = 0
    \/ \E c \in Range(n) :
          Len(solve_line_dp(n, colc[c], ColLine(n, grid, c), Fixed(ColLine(n, grid, c)))) = 0

RECURSIVE heuristics_until_stop(_, _, _, _, _)
\* st is [grid, moves, feasible]; m is the move the heuristics return on st.grid
commit_move(n, trs, st, rowc, colc, m) ==
    IF m = None THEN st
    ELSE IF ~CommitKeepsInvariants(n, st.grid, rowc, colc, m)
         THEN [st EXCEPT !.feasible = FALSE]
    ELSE heuristics_until_stop(n, trs,
             [st EXCEPT !.grid = SetCell(st.grid, <<m[1], m[2]>>, m[3]),
                        !.moves = st.moves + 1],
             rowc, colc)

heuristics_until_stop(n, trs, st, rowc, colc) ==
    commit_move(n, trs, st, rowc, colc, SmartBot_get_best_move(n, trs, st.grid, rowc, colc))

RECURSIVE propagation_loop(_, _, _, _, _, _)
\* b3 is the state the heuristics stopped in, b4 the result of the region step on it
after_region(n, trs, b3, b4, rowc, colc, moves) ==
    LET total == b3.moves + Cardinality({x \in Cells(n) : b4.grid[x] # b3.grid[x]})
    IN  IF (b3.moves = moves /\ ~b4.progress) \/ LineWithoutCompletion(n, b4.grid, rowc, colc)
        THEN [grid |-> b4.grid, moves |-> total]
        ELSE propagation_loop(n, trs, b4.grid, rowc, colc, total)

after_heuristics(n, trs, b3, rowc, colc, moves) ==
    IF ~b3.feasible THEN [grid |-> b3.grid, moves |-> b3.moves]
    ELSE after_region(n, trs, b3, solve_with_dnc(n, b3.grid, rowc, colc), rowc, colc, moves)

propagation_loop(n, trs, grid, rowc, colc, moves) ==
    after_heuristics(n, trs,
        heuristics_until_stop(n, trs, [grid |-> grid, moves |-> moves, feasible |-> TRUE],
                              rowc, colc),
        rowc, colc, moves)

solve_iteratively(n, trs, grid, rowc, colc) == propagation_loop(n, trs, grid, rowc, colc, 0)

(***************************************************************************)
(* BackBot helpers (back_bot.py 219-291)                                   *)
(***************************************************************************)
_is_placement_safe(n, board_state, cell) == \A x \in King(n, cell) : board_state[x] # TENT

\* The cells _mark_neighbors_grass changes, in its scan order.
GrassedCells(n, board_state, cell) ==
    FilterCells(KingSeq(cell), {x \in Cells(n) : board_state[x] = EMPTY}, 1)

_mark_neighbors_grass(n, board_state, cell) ==
    [x \in Cells(n) |-> IF x \in SeqRange(GrassedCells(n, board_state, cell))
                        THEN GRASS ELSE board_state[x]]

\* Variant: the grassed neighbours are left as they are.
_restore_neighbors_none(n, board_state, grassed) == board_state

_restore_neighbors(n, board_state, grassed) ==
    [x \in Cells(n) |-> IF x \in SeqRange(grassed) THEN EMPTY ELSE board_state[x]]

_find_paired_tree(n, trs, cell) ==
    LET hit == {j \in 1 .. Len(trs) : cell \in Ortho(n, trs[j])}
    IN  IF hit = {} THEN None ELSE trs[MinOf(hit)]

\* Variant: no forward check, a neighbour is tried whatever its row and column
\* budgets are.
Branchable_no_forward_check(n, board_state, rr, cr, cell) ==
    /\ board_state[cell] = EMPTY
    /\ _is_placement_safe(n, board_state, cell)

\* A neighbour the branch loop (back_bot.py 168-177) does not skip.
Branchable(n, board_state, rr, cr, cell) ==
    /\ board_state[cell] = EMPTY
    /\ _is_placement_safe(n, board_state, cell)
    /\ ~(rr[cell[1]] <= 0 \/ cr[cell[2]] <= 0)

_get_domain_size(n, tree, board_state, rr, cr) ==
    Cardinality({x \in SeqRange(_get_orthogonal_neighbors(n, tree[1], tree[2])) :
                    /\ board_state[x] = EMPTY
                    /\ ~(rr[x[1]] <= 0 \/ cr[x[2]] <= 0)
                    /\ _is_placement_safe(n, board_state, x)})

\* best_domain = 5, larger than any domain (back_bot.py 144)
best_domain_start == 5

\* Variant: no MRV, the first tree of the list is taken.
mrv_select_first(n, remaining, board_state, rr, cr) ==
    IF \E j \in 1 .. Len(remaining) :
          _get_domain_size(n, remaining[j], board_state, rr, cr) = 0
    THEN None ELSE remaining[1]

\* The MRV scan (back_bot.py 142-157): None when some tree has domain 0,
\* else the first tree of the list whose domain is the smallest.
mrv_select(n, remaining, board_state, rr, cr) ==
    LET ds(j) == _get_domain_size(n, remaining[j], board_state, rr, cr)
        idx == 1 .. Len(remaining)
    IN  IF \E j \in idx : ds(j) = 0 THEN None
        ELSE remaining[MinOf({j \in idx : /\ ds(j) < best_domain_start
                                          /\ \A i \in idx : ds(j) <= ds(i)})]

\* Variant: the chosen tree stays in the list handed down.
RemoveTree_keep(remaining, tree) == remaining

RECURSIVE RemoveTree(_, _)
\* [t for t in remaining_trees if t != best_tree]
RemoveTree(remaining, tree) ==
    IF remaining = <<>> THEN <<>>
    ELSE (IF Head(remaining) # tree THEN <<Head(remaining)>> ELSE <<>>)
         \o RemoveTree(Tail(remaining), tree)

\* Variant: any(v == 0 ...) where the code has all(v == 0 ...).
AllZero_any(v) == \E i \in DOMAIN v : v[i] = 0

\* Variant: the budgets are not looked at.
AllZero_unchecked(v) == TRUE

\* all(v == 0 for v in ...) (back_bot.py 85, 136-137)
AllZero(v) == \A i \in DOMAIN v : v[i] = 0

\* Variant: the first scan takes every live EMPTY cell that the cached grid
\* does not hold as GRASS.
diff_move_unless_grass(n, live, cached) ==
    LET pending == {x \in Cells(n) : live[x] = EMPTY /\ cached[x] # GRASS}
    IN  IF pending # {}
        THEN <<FirstCell(n, pending)[1], FirstCell(n, pending)[2], TENT,
               Rank(n, FirstCell(n, pending)) + 1>>
        ELSE None

\* Variant: the scan for UNKNOWN cells comes first, the scan for tents second.
diff_move_grass_first(n, live, cached) ==
    LET pending == {x \in Cells(n) : live[x] = EMPTY /\ cached[x] = TENT}
        unknown == {x \in Cells(n) : live[x] = EMPTY}
    IN  IF unknown # {}
        THEN <<FirstCell(n, unknown)[1], FirstCell(n, unknown)[2], GRASS,
               n * n + Rank(n, FirstCell(n, unknown)) + 1>>
        ELSE None

\* The move stream (back_bot.py 96-114): the value returned and focus_tree.
diff_move(n, live, cached) ==
    LET pending == {x \in Cells(n) : live[x] = EMPTY /\ cached[x] = TENT}
        unknown == {x \in Cells(n) : live[x] = EMPTY}
    IN  IF pending # {}
        THEN <<FirstCell(n, pending)[1], FirstCell(n, pending)[2], TENT,
               Rank(n, FirstCell(n, pending)) + 1>>
        ELSE IF unknown # {}
        THEN <<FirstCell(n, unknown)[1], FirstCell(n, unknown)[2], GRASS,
               n * n + Rank(n, FirstCell(n, unknown)) + 1>>
        ELSE None

diff_focus(n, trs, m) ==
    IF m # None /\ m[3] = TENT THEN _find_paired_tree(n, trs, <<m[1], m[2]>>) ELSE None

(***************************************************************************)
(* Values of the variables a driver does not use                           *)
(***************************************************************************)
NoGrid == [x \in {} |-> EMPTY]
NoVector == [i \in {} |-> 0]

GameIdle ==
    /\ size = 0 /\ trees = <<>> /\ row_constraints = NoVector /\ col_constraints = NoVector
    /\ player_grid = NoGrid /\ solution_grid = NoGrid
BotIdle ==
    /\ solution = NoSolution /\ focus_tree = None /\ ret = None /\ board = NoGrid
    /\ row_remaining = NoVector /\ col_remaining = NoVector
    /\ arg_remaining = <<>> /\ stack = <<>> /\ entered = <<>>
DpIdle ==
    /\ dp_length = 0 /\ dp_target = 0 /\ dp_line = <<>> /\ dp_fixed = {}
    /\ dp_configs = <<>> /\ dp_forced = EmptyDict
DncIdle ==
    /\ dnc_before = NoGrid /\ dnc_graph = NoGrid /\ dnc_components = <<>>
    /\ dnc_progress = FALSE
RaceIdle ==
    /\ greedy_grid = NoGrid /\ smart_grid = NoGrid /\ history = {}

(***************************************************************************)
(* SpecLine: one call of solve_line_dp followed by find_forced_moves on    *)
(* its result, as _apply_dp_to_lines, solve_with_dnc and                   *)
(* SmartBot._solve_rows_and_cols chain them.  The fixed set holds indices  *)
(* whose value is locked, i.e. indices of non-EMPTY cells.                 *)
(***************************************************************************)
LineInit ==
    /\ mode = "line" /\ pc = "ready"
    /\ dp_length \in 1 .. MaxLen
    /\ dp_target \in 0 .. dp_length
    /\ dp_line \in [1 .. dp_length -> {EMPTY, TREE, TENT, GRASS}]
    /\ dp_fixed \in SUBSET {i \in Range(dp_length) : dp_line[i + 1] # EMPTY}
    /\ dp_configs = <<>> /\ dp_forced = EmptyDict
    /\ GameIdle /\ BotIdle /\ DncIdle /\ RaceIdle

EnumerateLine ==
    /\ mode = "line" /\ pc = "ready"
    /\ dp_configs' = solve_line_dp(dp_length, dp_target, dp_line, dp_fixed)
    /\ pc' = "enumerated"
    /\ UNCHANGED <<mode, raceVars, history, dp_length, dp_target, dp_line, dp_fixed, dp_forced,
                   gameVars, botVars, dncVars>>

ForcedMoves ==
    /\ mode = "line" /\ pc = "enumerated"
    /\ dp_forced' = find_forced_moves(dp_configs)
    /\ pc' = "forced"
    /\ UNCHANGED <<mode, raceVars, history, dp_length, dp_target, dp_line, dp_fixed, dp_configs,
                   gameVars, botVars, dncVars>>

LineNext == EnumerateLine \/ ForcedMoves
SpecLine == LineInit /\ [][LineNext]_vars

(***************************************************************************)
(* SpecDnc: one call of solve_with_dnc on a board built field by field, as *)
(* test_split_board_dnc builds its board: some cells marked TENT or GRASS, *)
(* the targets assigned directly.                                          *)
(***************************************************************************)
\* test_split_board_dnc (test_tents.py 249-258)
SplitBoardGrid == [x \in Cells(5) |-> IF x[2] = 2 THEN GRASS ELSE EMPTY]
SplitBoardRows == [r \in Range(5) |-> IF r \in {1, 3} THEN 1 ELSE 0]
SplitBoardCols == [c \in Range(5) |-> IF c \in {0, 4} THEN 1 ELSE 0]

\* Boards with at most k cells that are not EMPTY.
MarkedBoards(n, k) ==
    {g \in [Cells(n) -> {EMPTY, TREE, TENT, GRASS}] :
        Cardinality({x \in Cells(n) : g[x] # EMPTY}) <= k}

\* Boards split by a wall, as the test's board is: one row or one column with
\* no EMPTY cell, every other cell EMPTY.
WalledBoards(n) ==
    {[x \in Cells(n) |-> IF x[a] = k THEN w[x[3 - a]] ELSE EMPTY] :
        <<a, k, w>> \in {1, 2} \X Range(n) \X [Range(n) -> {TREE, TENT, GRASS}]}

\* A board with no EMPTY cell left.
GrassBoard(n) == [x \in Cells(n) |-> GRASS]

DncInit ==
    /\ mode = "dnc" /\ pc = "ready"
    /\ \/ /\ size = DncSize
          /\ player_grid \in MarkedBoards(DncSize, MaxMarks) \cup WalledBoards(DncSize)
                                \cup {GrassBoard(DncSize)}
          /\ row_constraints \in [Range(DncSize) -> 0 .. MaxDncTarget]
          /\ col_constraints \in [Range(DncSize) -> 0 .. MaxDncTarget]
       \/ /\ size = 5
          /\ player_grid = SplitBoardGrid
          /\ row_constraints = SplitBoardRows
          /\ col_constraints = SplitBoardCols
    /\ trees = <<>> /\ solution_grid = [x \in Cells(size) |-> EMPTY]
    /\ BotIdle /\ DpIdle /\ DncIdle /\ RaceIdle

SolveWithDnc ==
    /\ mode = "dnc" /\ pc = "ready"
    /\ \E res \in {solve_with_dnc(size, player_grid, row_constraints, col_constraints)} :
           /\ player_grid' = res.grid
           /\ dnc_progress' = res.progress
    /\ dnc_before' = player_grid
    /\ pc' = "done"
    /\ UNCHANGED <<mode, raceVars, history, size, trees, row_constraints, col_constraints, solution_grid,
                   dnc_graph, dnc_components, botVars, dpVars>>

DncNext == SolveWithDnc
SpecDnc == DncInit /\ [][DncNext]_vars

(***************************************************************************)
(* SpecGraph: build_constraint_graph followed by                           *)
(* find_connected_components, as test_connected_components and             *)
(* solve_with_dnc chain them, on every pattern of EMPTY and marked cells.  *)
(***************************************************************************)
GraphInit ==
    /\ mode = "graph" /\ pc = "ready"
    /\ \/ /\ size = DncSize
          /\ player_grid \in [Cells(DncSize) -> {EMPTY, GRASS}]
       \/ /\ size = 5
          /\ player_grid = SplitBoardGrid
    /\ row_constraints = [r \in Range(size) |-> 0]
    /\ col_constraints = [c \in Range(size) |-> 0]
    /\ trees = <<>> /\ solution_grid = [x \in Cells(size) |-> EMPTY]
    /\ BotIdle /\ DpIdle /\ DncIdle /\ RaceIdle

BuildGraph ==
    /\ mode = "graph" /\ pc = "ready"
    /\ dnc_graph' = build_constraint_graph(size, player_grid)
    /\ pc' = "built"
    /\ UNCHANGED <<mode, raceVars, history, gameVars, botVars, dpVars, dnc_before, dnc_components, dnc_progress>>

FindComponents ==
    /\ mode = "graph" /\ pc = "built"
    /\ dnc_components' = find_connected_components(size, dnc_graph)
    /\ pc' = "done"
    /\ UNCHANGED <<mode, raceVars, history, gameVars, botVars, dpVars, dnc_before, dnc_graph, dnc_progress>>

GraphNext == BuildGraph \/ FindComponents
SpecGraph == GraphInit /\ [][GraphNext]_vars

(***************************************************************************)
(* SpecComp: one call of solve_with_dnc stepped through its component loop *)
(* (solver_utils.py 283-316), one component at a time, on the boards that  *)
(* a wall splits and on the board of test_split_board_dnc.                 *)
(***************************************************************************)
CompInit ==
    /\ mode = "comp" /\ pc = "ready"
    /\ \/ /\ size = DncSize
          /\ player_grid \in WalledBoards(DncSize)
          /\ row_constraints \in [Range(DncSize) -> 0 .. MaxDncTarget]
          /\ col_constraints \in [Range(DncSize) -> 0 .. MaxDncTarget]
       \/ /\ size = 5
          /\ player_grid = SplitBoardGrid
          /\ row_constraints = SplitBoardRows
          /\ col_constraints = SplitBoardCols
    /\ trees = <<>> /\ solution_grid = [x \in Cells(size) |-> EMPTY]
    /\ BotIdle /\ DpIdle /\ DncIdle /\ RaceIdle

\* solver_utils.py 271-282: the graph, the components, and the two early returns
DncEnter ==
    /\ mode = "comp" /\ pc = "ready"
    /\ dnc_before' = player_grid
    /\ dnc_graph' = build_constraint_graph(size, player_grid)
    /\ dnc_components' = find_connected_components(size, dnc_graph')
    /\ IF DOMAIN dnc_graph' = {}
       THEN dnc_progress' = FALSE /\ pc' = "done" /\ UNCHANGED player_grid
       ELSE IF Len(dnc_components') <= 1
       THEN \E res \in {_apply_dp_to_lines(size, player_grid,
                                            row_constraints, col_constraints)} :
               /\ player_grid' = res.grid
               /\ dnc_progress' = res.progress
               /\ pc' = "done"
       ELSE dnc_progress' = FALSE /\ pc' = "comp" /\ UNCHANGED player_grid
    /\ UNCHANGED <<mode, raceVars, history, size, trees, row_constraints, col_constraints,
                   solution_grid, botVars, dpVars>>

\* solver_utils.py 283-316: one turn of `for comp in components`
DncComponent ==
    /\ mode = "comp" /\ pc = "comp"
    /\ \E res \in {dnc_components_loop(size,
                                        [grid |-> player_grid, progress |-> dnc_progress],
                                        <<Head(dnc_components)>>,
                                        row_constraints, col_constraints)} :
          /\ player_grid' = res.grid
          /\ dnc_progress' = res.progress
    /\ dnc_components' = Tail(dnc_components)
    /\ pc' = (IF Tail(dnc_components) = <<>> THEN "done" ELSE "comp")
    /\ UNCHANGED <<mode, raceVars, history, size, trees, row_constraints, col_constraints,
                   solution_grid, dnc_before, dnc_graph, botVars, dpVars>>

CompNext == DncEnter \/ DncComponent

SpecComp == CompInit /\ [][CompNext]_vars

(***************************************************************************)
(* Spec: a game is generated by generate_level (tents.py 21-71) or built   *)
(* field by field as the BackBot tests build theirs; BackBot.get_best_move *)
(* is then called again and again, the caller writing each returned move   *)
(* into the live grid (gui.py 163-167, game_ui.py 482-489).                *)
(***************************************************************************)
Vec(s) == [i \in Range(Len(s)) |-> s[i + 1]]
TreesOnly(n, trs) == [x \in Cells(n) |-> IF x \in SeqRange(trs) THEN TREE ELSE EMPTY]
AllEmpty(n) == [x \in Cells(n) |-> EMPTY]

\* test_backbot_empty_board (test_tents.py 377-385)
EmptyBoardGame == [size |-> 3, trees |-> << <<0, 1>> >>,
                   rows |-> Vec(<<1, 0, 0>>), cols |-> Vec(<<1, 0, 0>>)]
\* test_backbot_constraints, scenario A (test_tents.py 430-438)
ScenarioA == [size |-> 3, trees |-> << <<0, 1>> >>,
              rows |-> Vec(<<0, 0, 0>>), cols |-> Vec(<<0, 0, 0>>)]
\* test_backbot_constraints, scenario B (test_tents.py 447-455)
ScenarioB == [size |-> 3, trees |-> << <<0, 0>>, <<0, 1>> >>,
              rows |-> Vec(<<0, 2, 0>>), cols |-> Vec(<<1, 1, 0>>)]
\* The level TentsGame(size=4).generate_level(4) returns under random.seed(182):
\* tents at (0,0), (0,2), (2,3), (3,0).
Seed182Game == [size |-> 4, trees |-> << <<3, 1>>, <<1, 0>>, <<1, 3>>, <<0, 1>> >>,
                rows |-> Vec(<<2, 0, 1, 1>>), cols |-> Vec(<<2, 0, 1, 1>>)]
\* The level TentsGame(size=5).generate_level(5) returns under random.seed(18933):
\* tents at (0,2), (1,0), (2,3), (3,1), (4,4).
Seed18933Game == [size |-> 5,
                  trees |-> << <<2, 0>>, <<4, 3>>, <<4, 1>>, <<2, 4>>, <<0, 1>> >>,
                  rows |-> Vec(<<1, 1, 1, 1, 1>>), cols |-> Vec(<<1, 1, 1, 1, 1>>)]
\* The level TentsGame(size=4).generate_level(4) returns under random.seed(405):
\* tents at (0,1), (1,3), (2,0), (3,2).
Seed405Game == [size |-> 4, trees |-> << <<1, 1>>, <<3, 1>>, <<1, 0>>, <<2, 3>> >>,
                rows |-> Vec(<<1, 1, 1, 1>>), cols |-> Vec(<<1, 1, 1, 1>>)]

\* The boards of the two tests above with any targets assigned.
LoadedGames ==
    {[size |-> 3, trees |-> t, rows |-> rw, cols |-> cl] :
        <<t, rw, cl>> \in {EmptyBoardGame.trees, ScenarioB.trees}
                            \X [Range(3) -> 0 .. MaxTarget] \X [Range(3) -> 0 .. MaxTarget]}

BuiltGames ==
    {EmptyBoardGame, ScenarioA, ScenarioB, Seed182Game, Seed18933Game, Seed405Game}
        \cup LoadedGames

\* A game about to be generated, or one of `games` built by a test.
NewGameOf(games) ==
    /\ \/ \* TentsGame(size=GenSize), about to run generate_level(NumTents)
          /\ pc = "gen"
          /\ size = GenSize /\ trees = <<>>
          /\ row_constraints = [i \in Range(GenSize) |-> 0]
          /\ col_constraints = [i \in Range(GenSize) |-> 0]
          /\ player_grid = AllEmpty(GenSize)
       \/ \* a game built by a test
          /\ pc = "idle"
          /\ \E g \in games :
                /\ size = g.size /\ trees = g.trees
                /\ row_constraints = g.rows /\ col_constraints = g.cols
                /\ player_grid = TreesOnly(g.size, g.trees)
    /\ solution_grid = AllEmpty(size)
    /\ BotIdle /\ DpIdle /\ DncIdle /\ RaceIdle

NewGame == NewGameOf(BuiltGames)

BotInit == mode = "bot" /\ NewGame

\* _can_place_tent_conceptually (tents.py 73-93)
_can_place_tent_conceptually(n, sg, cell) ==
    /\ sg[cell] = EMPTY
    /\ \A x \in King(n, cell) \cup {cell} : sg[x] # TENT

\* is_move_legal (tents.py 114-154)
is_move_legal(n, grid, rowc, colc, r, c, move_type) ==
    /\ r \in Range(n) /\ c \in Range(n)
    /\ grid[<<r, c>>] # TREE
    /\ move_type = TENT =>
          /\ \A x \in King(n, <<r, c>>) : grid[x] # TENT
          /\ ~(RowTents(n, grid, r) + 1 > rowc[r])
          /\ ~(ColTents(n, grid, c) + 1 > colc[c])

\* One successful pass of the generation loop (tents.py 34-57): a drawn cell
\* takes the tent, the first EMPTY neighbour of the shuffled list takes the tree.
GenPlace ==
    /\ mode \in {"bot", "race", "prop", "pass"} /\ pc = "gen"
    /\ Len(trees) < NumTents
    /\ \E cell \in Cells(size) :
          /\ _can_place_tent_conceptually(size, solution_grid, cell)
          /\ \E nb \in SeqRange(_get_orthogonal_neighbors(size, cell[1], cell[2])) :
                /\ solution_grid[nb] = EMPTY
                /\ solution_grid' = [solution_grid EXCEPT ![cell] = TENT, ![nb] = TREE]
                /\ trees' = Append(trees, nb)
    /\ UNCHANGED <<mode, raceVars, history, pc, size, row_constraints, col_constraints, player_grid,
                   botVars, dpVars, dncVars>>

\* A draw that places nothing (tents.py 40-41, 59-61); max_attempts such draws
\* end the loop short of num_tents.
FailingDraw(n, sg) ==
    \E cell \in Cells(n) :
        \/ ~_can_place_tent_conceptually(n, sg, cell)
        \/ \A nb \in SeqRange(_get_orthogonal_neighbors(n, cell[1], cell[2])) : sg[nb] # EMPTY

\* The loop exit and the rest of generate_level (tents.py 63-71).
GenFinish ==
    /\ mode \in {"bot", "race", "prop", "pass"} /\ pc = "gen"
    /\ Len(trees) = NumTents \/ FailingDraw(size, solution_grid)
    /\ row_constraints' = [r \in Range(size) |-> RowTents(size, solution_grid, r)]
    /\ col_constraints' = [c \in Range(size) |-> ColTents(size, solution_grid, c)]
    /\ player_grid' = TreesOnly(size, trees)
    /\ pc' = "idle"
    /\ UNCHANGED <<mode, raceVars, history, size, trees, solution_grid, botVars, dpVars, dncVars>>

(***************************************************************************)
(* BackBot.get_best_move (back_bot.py 24-114).  The first call runs the    *)
(* solve step; _solve_recursive (back_bot.py 120-213) is stepped through   *)
(* one call, one placement, one undo and one return at a time.             *)
(***************************************************************************)
\* Variant: board = self.game.player_grid, the working grid is the game's own list.
live_grid_after_shared(live, working) == working

\* board = copy.deepcopy(self.game.player_grid) (back_bot.py 42): the working grid
\* is a list object of its own, a write to it leaves the game's list as it was.
live_grid_after(live, working) == live

\* Variant: no tree is dropped, satisfied or not.
unresolved_trees_all(n, trs, b) == trs

\* back_bot.py 58-67
unresolved_trees(n, trs, b) ==
    FilterCells(trs, {t \in SeqRange(trs) : \A x \in Ortho(n, t) : b[x] # TENT}, 1)

\* back_bot.py 96-114, the tail every successful call runs
ReturnDiff(cached) ==
    /\ ret' = diff_move(size, player_grid, cached)
    /\ focus_tree' = diff_focus(size, trees, diff_move(size, player_grid, cached))
    /\ pc' = "returned"

\* back_bot.py 38-94 up to the call of _solve_recursive
StartSolve ==
    /\ mode = "bot" /\ pc = "idle" /\ solution = NoSolution
    /\ \E greedy \in {solve_iteratively(size, trees, player_grid,
                                        row_constraints, col_constraints)} :
          LET b == greedy.grid
              remaining_trees == unresolved_trees(size, trees, b)
              rr == [r \in Range(size) |-> row_constraints[r] - RowTents(size, b, r)]
              cr == [c \in Range(size) |-> col_constraints[c] - ColTents(size, b, c)]
          IN  /\ board' = b
              /\ row_remaining' = rr
              /\ col_remaining' = cr
              /\ arg_remaining' = remaining_trees
              /\ entered' = IF remaining_trees = <<>> THEN <<>>
                            ELSE <<[board |-> b, row_remaining |-> rr, col_remaining |-> cr]>>
              /\ IF remaining_trees = <<>>
                 THEN IF AllZero(rr) /\ AllZero(cr)
                      THEN solution' = b /\ ReturnDiff(b)
                      ELSE /\ ret' = None /\ pc' = "returned"
                           /\ UNCHANGED <<solution, focus_tree>>
                 ELSE pc' = "call" /\ UNCHANGED <<solution, focus_tree, ret>>
    /\ player_grid' = live_grid_after(player_grid, board')
    /\ UNCHANGED <<mode, raceVars, history, size, trees, row_constraints, col_constraints,
                   solution_grid, stack, dpVars, dncVars>>

\* back_bot.py 134-165: entry of _solve_recursive up to the branch loop
SolveEnter ==
    /\ mode = "bot" /\ pc = "call"
    /\ IF arg_remaining = <<>>
       THEN /\ pc' = IF AllZero(row_remaining) /\ AllZero(col_remaining)
                     THEN "ret_true" ELSE "ret_false"
            /\ UNCHANGED stack
       ELSE LET best_tree == mrv_select(size, arg_remaining, board,
                                        row_remaining, col_remaining)
            IN  IF best_tree = None
                THEN pc' = "ret_false" /\ UNCHANGED stack
                ELSE /\ stack' = Append(stack, [remaining |-> arg_remaining,
                                                best_tree |-> best_tree,
                                                k |-> 0,
                                                grassed |-> <<>>,
                                                tried |-> <<>>])
                     /\ pc' = "loop"
    /\ UNCHANGED <<mode, raceVars, history, gameVars, solution, focus_tree, ret, board, row_remaining,
                   col_remaining, arg_remaining, entered, dpVars, dncVars>>

\* back_bot.py 168-199, 213: the branch loop from its next neighbour on, up
\* to the recursive call or to the loop's end.
SolveBranch ==
    /\ mode = "bot" /\ pc = "loop"
    /\ LET f == stack[Len(stack)]
           nbs == _get_orthogonal_neighbors(size, f.best_tree[1], f.best_tree[2])
           open == {j \in (f.k + 1) .. Len(nbs) :
                       Branchable(size, board, row_remaining, col_remaining, nbs[j])}
       IN  IF open = {}
           THEN /\ stack' = SubSeq(stack, 1, Len(stack) - 1)
                /\ pc' = "ret_false"
                /\ UNCHANGED <<board, row_remaining, col_remaining, arg_remaining, entered>>
           ELSE LET j == MinOf(open)
                    cell == nbs[j]
                    placed == SetCell(board, cell, TENT)
                IN  /\ board' = _mark_neighbors_grass(size, placed, cell)
                    /\ row_remaining' = [row_remaining EXCEPT ![cell[1]] = @ - 1]
                    /\ col_remaining' = [col_remaining EXCEPT ![cell[2]] = @ - 1]
                    /\ stack' = [stack EXCEPT ![Len(stack)] =
                                    [f EXCEPT !.k = j,
                                              !.grassed = GrassedCells(size, placed, cell),
                                              !.tried = Append(@, cell)]]
                    /\ arg_remaining' = RemoveTree(f.remaining, f.best_tree)
                    /\ entered' = Append(entered, [board |-> board',
                                                   row_remaining |-> row_remaining',
                                                   col_remaining |-> col_remaining'])
                    /\ pc' = "call"
    /\ player_grid' = live_grid_after(player_grid, board')
    /\ UNCHANGED <<mode, raceVars, history, size, trees, row_constraints, col_constraints,
                   solution_grid, solution, focus_tree, ret, dpVars, dncVars>>

\* back_bot.py 202-211: the callee returned False
SolveUndo ==
    /\ mode = "bot" /\ pc = "ret_false" /\ stack # <<>>
    /\ LET f == stack[Len(stack)]
           nbs == _get_orthogonal_neighbors(size, f.best_tree[1], f.best_tree[2])
           cell == nbs[f.k]
       IN  /\ board' = SetCell(_restore_neighbors(size, board, f.grassed), cell, EMPTY)
           /\ row_remaining' = [row_remaining EXCEPT ![cell[1]] = @ + 1]
           /\ col_remaining' = [col_remaining EXCEPT ![cell[2]] = @ + 1]
    /\ entered' = SubSeq(entered, 1, Len(entered) - 1)
    /\ pc' = "loop"
    /\ player_grid' = live_grid_after(player_grid, board')
    /\ UNCHANGED <<mode, raceVars, history, size, trees, row_constraints, col_constraints,
                   solution_grid, solution, focus_tree, ret, arg_remaining, stack,
                   dpVars, dncVars>>

\* back_bot.py 196-200: the callee returned True
SolveUnwind ==
    /\ mode = "bot" /\ pc = "ret_true" /\ stack # <<>>
    /\ stack' = SubSeq(stack, 1, Len(stack) - 1)
    /\ entered' = SubSeq(entered, 1, Len(entered) - 1)
    /\ UNCHANGED <<mode, raceVars, history, pc, gameVars, solution, focus_tree, ret, board, row_remaining,
                   col_remaining, arg_remaining, dpVars, dncVars>>

\* back_bot.py 90-114: the root call returned
SolveFinish ==
    /\ mode = "bot" /\ pc \in {"ret_true", "ret_false"} /\ stack = <<>>
    /\ IF pc = "ret_true"
       THEN solution' = board /\ ReturnDiff(board)
       ELSE /\ ret' = None /\ pc' = "returned"
            /\ UNCHANGED <<solution, focus_tree>>
    /\ entered' = <<>>
    /\ UNCHANGED <<mode, raceVars, history, gameVars, board, row_remaining, col_remaining, arg_remaining,
                   stack, dpVars, dncVars>>

\* back_bot.py 41, 96-114: a call with the solution cached
CachedMove ==
    /\ mode = "bot" /\ pc = "idle" /\ solution # NoSolution
    /\ ReturnDiff(solution)
    /\ UNCHANGED <<mode, raceVars, history, gameVars, solution, board, row_remaining, col_remaining,
                   arg_remaining, stack, entered, dpVars, dncVars>>

\* The caller writes the returned move into the live grid (gui.py 165-167).
ApplyMove ==
    /\ mode = "bot" /\ pc = "returned" /\ ret # None
    /\ player_grid' = SetCell(player_grid, <<ret[1], ret[2]>>, ret[3])
    /\ history' = history \cup {<<player_grid, ret>>}
    /\ pc' = "idle"
    /\ UNCHANGED <<mode, raceVars, size, trees, row_constraints, col_constraints, solution_grid,
                   botVars, dpVars, dncVars>>

\* The caller calls again without having written anything (test_tents.py 389, 441).
CallAgain ==
    /\ mode = "bot" /\ pc = "returned"
    /\ history' = history \cup {<<player_grid, ret>>}
    /\ pc' = "idle"
    /\ UNCHANGED <<mode, raceVars, gameVars, botVars, dpVars, dncVars>>

Next ==
    \/ GenPlace \/ GenFinish
    \/ StartSolve \/ SolveEnter \/ SolveBranch \/ SolveUndo \/ SolveUnwind \/ SolveFinish
    \/ CachedMove \/ ApplyMove \/ CallAgain

Spec == BotInit /\ [][Next]_vars

\* SpecLive: as Spec, and a running get_best_move call goes on to its next
\* statement: the steps of the solve (back_bot.py 90-94, 120-213) are not
\* suspended for ever.
SolveStep == SolveEnter \/ SolveBranch \/ SolveUndo \/ SolveUnwind \/ SolveFinish

SpecLive == Spec /\ WF_vars(SolveStep)

(***************************************************************************)
(* SpecRestart: as Spec, and at any return the caller may build another    *)
(* BackBot on the game as it stands (BackBot.__init__, back_bot.py 16-22)  *)
(* and go on with that one.                                                *)
(***************************************************************************)
NewBot ==
    /\ mode = "bot" /\ pc = "returned"
    /\ history' = history \cup {<<player_grid, ret>>}
    /\ solution' = NoSolution /\ focus_tree' = None
    /\ ret' = None /\ board' = NoGrid
    /\ row_remaining' = NoVector /\ col_remaining' = NoVector
    /\ arg_remaining' = <<>> /\ stack' = <<>> /\ entered' = <<>>
    /\ pc' = "idle"
    /\ UNCHANGED <<mode, raceVars, gameVars, dpVars, dncVars>>

RestartNext == Next \/ NewBot

SpecRestart == BotInit /\ [][RestartNext]_vars

(***************************************************************************)
(* SpecRace: test_smart_vs_greedy (test_tents.py 296-359).  Both bots get  *)
(* a clone of the same game; each bot's moves are written into its clone   *)
(* until the bot has none.                                                 *)
(***************************************************************************)
RaceInit == mode = "race" /\ NewGame

\* clone_for_race (tents.py 200-219), called once for each bot
CloneForRace ==
    /\ mode = "race" /\ pc = "idle"
    /\ greedy_grid' = TreesOnly(size, trees)
    /\ smart_grid' = TreesOnly(size, trees)
    /\ pc' = "greedy"
    /\ UNCHANGED <<mode, history, gameVars, botVars, dpVars, dncVars>>

\* One pass of the greedy loop (test_tents.py 322-329)
GreedyMove ==
    /\ mode = "race" /\ pc = "greedy"
    /\ \E move \in {GreedyBot_get_best_move(size, trees, greedy_grid,
                                            row_constraints, col_constraints)} :
          IF move = None
          THEN pc' = "smart" /\ UNCHANGED greedy_grid
          ELSE /\ greedy_grid' = SetCell(greedy_grid, <<move[1], move[2]>>, move[3])
               /\ UNCHANGED pc
    /\ UNCHANGED <<mode, smart_grid, history, gameVars, botVars, dpVars, dncVars>>

\* The same loop over SmartBot.get_best_move
SmartMove ==
    /\ mode = "race" /\ pc = "smart"
    /\ \E move \in {SmartBot_get_best_move(size, trees, smart_grid,
                                           row_constraints, col_constraints)} :
          IF move = None
          THEN pc' = "raced" /\ UNCHANGED smart_grid
          ELSE /\ smart_grid' = SetCell(smart_grid, <<move[1], move[2]>>, move[3])
               /\ UNCHANGED pc
    /\ UNCHANGED <<mode, greedy_grid, history, gameVars, botVars, dpVars, dncVars>>

RaceNext == GenPlace \/ GenFinish \/ CloneForRace \/ GreedyMove \/ SmartMove

SpecRace == RaceInit /\ [][RaceNext]_vars

(***************************************************************************)
(* SpecProp: the propagation steps on the grid of a game, in any order: a  *)
(* block of SmartBot.get_best_move returns a move and the caller writes it *)
(* (test_tents.py 322-329), or solve_with_dnc is called on the game        *)
(* (test_tents.py 265).                                                    *)
(***************************************************************************)
\* The boards of the tests and the seeded levels, with the targets they have.
NamedGames == {EmptyBoardGame, ScenarioA, ScenarioB, Seed182Game, Seed18933Game, Seed405Game}

PropInit == mode = "prop" /\ NewGameOf(NamedGames)

\* The move of one block of get_best_move is written into the grid.
HeuristicStep ==
    /\ mode = "prop" /\ pc = "idle"
    /\ \E k \in 1 .. 7 :
          \E move \in {heuristic_moves(size, trees, player_grid,
                                       row_constraints, col_constraints)[k]} :
              /\ move # None
              /\ player_grid' = SetCell(player_grid, <<move[1], move[2]>>, move[3])
    /\ UNCHANGED <<mode, raceVars, history, pc, size, trees, row_constraints, col_constraints,
                   solution_grid, botVars, dpVars, dncVars>>

\* One call of solve_with_dnc on the game.
RegionStep ==
    /\ mode = "prop" /\ pc = "idle"
    /\ \E res \in {solve_with_dnc(size, player_grid, row_constraints, col_constraints)} :
          /\ player_grid' = res.grid
          /\ dnc_progress' = res.progress
    /\ dnc_before' = player_grid
    /\ UNCHANGED <<mode, raceVars, history, pc, size, trees, row_constraints, col_constraints,
                   solution_grid, dnc_graph, dnc_components, botVars, dpVars>>

PropNext == GenPlace \/ GenFinish \/ HeuristicStep \/ RegionStep

SpecProp == PropInit /\ [][PropNext]_vars

(***************************************************************************)
(* SpecEdit: as Spec on the named levels, and between two calls the caller *)
(* may write any value into any cell of the live grid that holds no tree,  *)
(* as the click handlers of the boards do (game_ui.py 402-427).            *)
(***************************************************************************)
\* Variant: self._solution is the list object of the live grid.
solution_after_write_shared(cached, live) == IF cached = NoSolution THEN cached ELSE live

\* self._solution = board (back_bot.py 85, 92), board being the deep copy of
\* back_bot.py 42: a write to the live grid leaves the cached grid as it was.
solution_after_write(cached, live) == cached

EditInit == mode = "bot" /\ NewGameOf(NamedGames)

\* game_ui.py 402-427: a cell without a tree takes another value.
WriteCell ==
    /\ mode = "bot" /\ pc = "returned"
    /\ Cardinality(history) < MaxEdits
    /\ \E x \in Cells(size), v \in {EMPTY, TENT, GRASS} :
          /\ player_grid[x] # TREE /\ player_grid[x] # v
          /\ player_grid' = SetCell(player_grid, x, v)
    /\ solution' = solution_after_write(solution, player_grid')
    /\ history' = history \cup {<<player_grid, ret>>}
    /\ pc' = "idle"
    /\ UNCHANGED <<mode, raceVars, size, trees, row_constraints, col_constraints, solution_grid,
                   focus_tree, ret, board, row_remaining, col_remaining, arg_remaining,
                   stack, entered, dpVars, dncVars>>

EditNext == Next \/ WriteCell

SpecEdit == EditInit /\ [][EditNext]_vars

(***************************************************************************)
(* SpecPass: two passes of propagation on the grid of a game, a pass being *)
(* what section 4.4 of the specification makes of one turn of the driver's *)
(* loop: SmartBot.get_best_move until it returns None, each move written   *)
(* into the grid, then solve_with_dnc once.                                *)
(***************************************************************************)
PassInit == mode = "pass" /\ NewGame

\* get_best_move is called and its move written; None ends the heuristics of
\* the pass.
PassHeuristic ==
    /\ mode = "pass" /\ pc \in {"idle", "again"}
    /\ \E move \in {SmartBot_get_best_move(size, trees, player_grid,
                                            row_constraints, col_constraints)} :
          IF move = None
          THEN /\ pc' = (IF pc = "idle" THEN "region" ELSE "region_again")
               /\ UNCHANGED player_grid
          ELSE /\ player_grid' = SetCell(player_grid, <<move[1], move[2]>>, move[3])
               /\ UNCHANGED pc
    /\ UNCHANGED <<mode, raceVars, history, size, trees, row_constraints, col_constraints,
                   solution_grid, botVars, dpVars, dncVars>>

\* solve_with_dnc is called once; it ends the pass.
PassRegion ==
    /\ mode = "pass" /\ pc \in {"region", "region_again"}
    /\ \E res \in {solve_with_dnc(size, player_grid, row_constraints, col_constraints)} :
          /\ player_grid' = res.grid
          /\ dnc_progress' = res.progress
    /\ dnc_before' = player_grid
    /\ pc' = (IF pc = "region" THEN "again" ELSE "twice")
    /\ UNCHANGED <<mode, raceVars, history, size, trees, row_constraints, col_constraints,
                   solution_grid, dnc_graph, dnc_components, botVars, dpVars>>

PassNext == GenPlace \/ GenFinish \/ PassHeuristic \/ PassRegion

SpecPass == PassInit /\ [][PassNext]_vars

(***************************************************************************)
(* Properties of the line enumerator and the intersection step (SpecLine)  *)
(***************************************************************************)
TentCount(s) == Cardinality({i \in 1 .. Len(s) : s[i] = TENT})

\* The completions of the line of the call, stated from their five conditions.
LineCompletions ==
    {s \in [1 .. dp_length -> {TREE, TENT, GRASS}] :
        /\ \A i \in Range(dp_length) :
              (i \notin dp_fixed /\ dp_line[i + 1] # TREE) => s[i + 1] \in {TENT, GRASS}
        /\ \A i \in dp_fixed : s[i + 1] = dp_line[i + 1]
        /\ \A i \in Range(dp_length) : dp_line[i + 1] = TREE => s[i + 1] = TREE
        /\ TentCount(s) = dp_target
        /\ \A i \in 1 .. dp_length - 1 : ~(s[i] = TENT /\ s[i + 1] = TENT)}

AllUnknown == \A i \in 1 .. dp_length : dp_line[i] = EMPTY

\* C5: solve_line_dp returns exactly the completions of the line (TENT or GRASS
\* at every non-fixed non-TREE index, fixed values kept, TREE copied through,
\* exactly `target` TENTs, no two TENTs at adjacent indices), each listed once,
\* hence the empty list exactly when there is none; length 4, target 2, all
\* UNKNOWN gives exactly TGTG, TGGT and GTGT.
C5_ExactCompletions ==
    (mode = "line" /\ pc = "enumerated") =>
        /\ SeqRange(dp_configs) = LineCompletions
        /\ Len(dp_configs) = Cardinality(SeqRange(dp_configs))
        /\ (dp_length = 4 /\ dp_target = 2 /\ AllUnknown /\ dp_fixed = {}) =>
              SeqRange(dp_configs) = {<<TENT, GRASS, TENT, GRASS>>,
                                      <<TENT, GRASS, GRASS, TENT>>,
                                      <<GRASS, TENT, GRASS, TENT>>}

\* A line with a TREE, a fixed TENT and free cells has been enumerated and
\* has more than one completion.
C5_Witness ==
    /\ mode = "line" /\ pc = "enumerated"
    /\ dp_length = 4 /\ dp_target = 2
    /\ dp_line = <<TENT, TREE, EMPTY, EMPTY>> /\ dp_fixed = {0}
    /\ Len(dp_configs) = 2

\* C6: find_forced_moves maps index i to v iff every completion of the list
\* has v at i and v is TENT or GRASS; no TREE index is in the result; the
\* empty list gives the empty map; a target-0 all-UNKNOWN line has every
\* index forced to GRASS.
C6_ForcedIffUnanimous ==
    (mode = "line" /\ pc = "forced") =>
        /\ Len(dp_configs) = 0 => DOMAIN dp_forced = {}
        /\ Len(dp_configs) > 0 =>
              \A i \in Range(dp_length) : \A v \in {EMPTY, TREE, TENT, GRASS} :
                  (i \in DOMAIN dp_forced /\ dp_forced[i] = v)
                    <=> (v \in {TENT, GRASS}
                         /\ \A k \in 1 .. Len(dp_configs) : dp_configs[k][i + 1] = v)
        /\ \A i \in DOMAIN dp_forced : dp_line[i + 1] # TREE
        /\ (dp_target = 0 /\ AllUnknown) => dp_forced = [i \in Range(dp_length) |-> GRASS]

\* Several completions were intersected: some index is forced, some free
\* index is not.
C6_Witness ==
    /\ mode = "line" /\ pc = "forced"
    /\ Len(dp_configs) >= 2
    /\ DOMAIN dp_forced # {}
    /\ \E i \in Range(dp_length) : dp_line[i + 1] = EMPTY /\ i \notin DOMAIN dp_forced


(***************************************************************************)
(* Properties of the region decomposer (SpecDnc, SpecGraph)                *)
(***************************************************************************)
Unknown(grid) == {x \in Cells(size) : grid[x] = EMPTY}

DncReturned == mode = "dnc" /\ pc = "done" /\ Unknown(dnc_before) # {}

\* The parts of the statement of C9 that do not depend on when a line is
\* looked at for a TENT.
DncCountAndResult ==
    /\ Cardinality(Unknown(player_grid)) <= Cardinality(Unknown(dnc_before))
    /\ dnc_progress <=> player_grid # dnc_before
    /\ (size = 5 /\ dnc_before = SplitBoardGrid /\ row_constraints = SplitBoardRows
          /\ col_constraints = SplitBoardCols) =>
          /\ dnc_progress
          /\ \A x \in Cells(size) :
                (x[1] \in {0, 2, 4} \/ x[2] \in {1, 3}) => player_grid[x] # EMPTY

\* Every cell of the zero-target lines that hold no TENT in `held` and that
\* was UNKNOWN at entry is GRASS at return.
ZeroLinesGrassed(held) ==
    /\ \A r \in Range(size) :
          (row_constraints[r] = 0 /\ RowTents(size, held, r) = 0) =>
              \A c \in Range(size) :
                  dnc_before[<<r, c>>] = EMPTY => player_grid[<<r, c>>] = GRASS
    /\ \A c \in Range(size) :
          (col_constraints[c] = 0 /\ ColTents(size, held, c) = 0) =>
              \A r \in Range(size) :
                  dnc_before[<<r, c>>] = EMPTY => player_grid[<<r, c>>] = GRASS

RECURSIVE Closure(_, _)
\* The cells of U reached from the set S by steps between 8-neighbours.
Closure(S, U) ==
    LET T == S \cup {y \in U : \E x \in S : /\ x[1] - y[1] \in -1 .. 1
                                              /\ x[2] - y[2] \in -1 .. 1}
    IN  IF T = S THEN S ELSE Closure(T, U)

\* C10: the components returned for the graph of the player grid partition
\* exactly its UNKNOWN cells, and two UNKNOWN cells share a component iff a
\* path of UNKNOWN cells with 8-neighbour steps joins them (the component of
\* a cell is the set of cells such paths reach from it); a 5x5 grid with
\* column 2 all GRASS has exactly the left and the right component.
C10_ComponentsPartition ==
    (mode = "graph" /\ pc = "done") =>
        LET U == Unknown(player_grid)
            idx == 1 .. Len(dnc_components)
        IN  /\ \A x \in Cells(size) :
                  Cardinality({k \in idx : x \in dnc_components[k]})
                    = IF x \in U THEN 1 ELSE 0
            /\ \A k \in idx : dnc_components[k] # {}
            /\ \A k \in idx : \A x \in dnc_components[k] :
                  Closure({x}, U) = dnc_components[k]
            /\ (size = 5 /\ player_grid = SplitBoardGrid) =>
                  SeqRange(dnc_components) = {{x \in Cells(5) : x[2] < 2},
                                              {x \in Cells(5) : x[2] > 2}}

\* A grid whose UNKNOWN cells touch only diagonally somewhere and fall into
\* more than one component.
C10_Witness ==
    /\ mode = "graph" /\ pc = "done" /\ size = DncSize
    /\ Len(dnc_components) = 2
    /\ \E k \in 1 .. 2 : \E x \in dnc_components[k] : \E y \in dnc_components[k] :
          x[1] # y[1] /\ x[2] # y[2] /\ y \in King(size, x)
          /\ \A z \in Ortho(size, x) \cap Ortho(size, y) : player_grid[z] # EMPTY


(***************************************************************************)
(* Properties of BackBot.get_best_move (Spec)                              *)
(***************************************************************************)
TentsOf(grid) == {x \in Cells(size) : grid[x] = TENT}

NoTouchingTents(T) == \A x \in T : \A y \in T : y \notin King(size, x)

CountsMeetTargets(T) ==
    /\ \A r \in Range(size) : Cardinality({x \in T : x[1] = r}) = row_constraints[r]
    /\ \A c \in Range(size) : Cardinality({x \in T : x[2] = c}) = col_constraints[c]

RECURSIVE HasPairing(_, _)
\* The trees of trs and the tents of T pair off one to one, each tent
\* orthogonally adjacent to its tree.
HasPairing(trs, T) ==
    IF trs = <<>> THEN T = {}
    ELSE \E x \in T \cap Ortho(size, Head(trs)) : HasPairing(Tail(trs), T \ {x})

RECURSIVE TentChoices(_, _)
\* The tent sets that give every tree of trs a tent of its own next to it,
\* on cells outside `taken`.
TentChoices(trs, taken) ==
    IF trs = <<>> THEN {{}}
    ELSE UNION {{T \cup {x} : T \in TentChoices(Tail(trs), taken \cup {x})} :
                   x \in Ortho(size, Head(trs)) \ taken}

\* The puzzle of the state has a valid solution.
HasSolution ==
    \E T \in TentChoices(trees, SeqRange(trees)) :
        NoTouchingTents(T) /\ CountsMeetTargets(T)

Generated == mode = "bot" /\ pc # "gen" /\ \E x \in Cells(size) : solution_grid[x] = TENT
Solved == mode = "bot" /\ solution # NoSolution
Returned == mode = "bot" /\ pc = "returned"
LiveTreesOnly == player_grid = TreesOnly(size, trees)

\* C1: whenever the solve step has cached a solution grid, no two TENT cells
\* of the cached grid are 8-adjacent, and every row and every column holds
\* exactly its target number of TENT cells.
C1_CachedGridValid ==
    Solved => (NoTouchingTents(TentsOf(solution)) /\ CountsMeetTargets(TentsOf(solution)))

\* A generated puzzle with two trees is solved, and the cached grid is not
\* the grid the propagation step alone reaches: the search completed it.
C1_Witness ==
    /\ Solved /\ Generated /\ pc = "returned"
    /\ Len(trees) = 2 /\ Cardinality(TentsOf(solution)) = 2
    /\ solution # solve_iteratively(size, trees, TreesOnly(size, trees),
                                    row_constraints, col_constraints).grid

\* C2 as stated: on a generated puzzle the cached grid has exactly one TENT
\* orthogonally adjacent to each TREE, and trees and tents pair off one to
\* one with each tent orthogonally adjacent to its tree.
C2_AsStated ==
    (Generated /\ Solved) =>
        /\ \A t \in SeqRange(trees) :
              Cardinality(TentsOf(solution) \cap Ortho(size, t)) = 1
        /\ HasPairing(trees, TentsOf(solution))

\* C2 amended: on a generated puzzle the cached grid has at least one TENT
\* orthogonally adjacent to each TREE, and trees and tents pair off one to
\* one with each tent orthogonally adjacent to its tree.
C2_PairedTents ==
    (Generated /\ Solved) =>
        /\ \A t \in SeqRange(trees) :
              Cardinality(TentsOf(solution) \cap Ortho(size, t)) >= 1
        /\ HasPairing(trees, TentsOf(solution))

\* A generated puzzle is solved and one of its trees has two tents next to it.
C2_Witness ==
    /\ Generated /\ Solved /\ Len(trees) = NumTents
    /\ \E t \in SeqRange(trees) : Cardinality(TentsOf(solution) \cap Ortho(size, t)) = 2

\* C3: called on a live grid that holds only the trees of a puzzle that has
\* a valid solution, get_best_move returns a move; it returns None only when
\* the puzzle has no valid solution.
C3_Complete == (Returned /\ LiveTreesOnly /\ HasSolution) => ret # None

\* C4: on a puzzle with no valid solution (the 3x3 puzzles of scenario A and
\* scenario B among them) get_best_move returns None, never a move.
C4_InfeasibleIsNone == (Returned /\ ~HasSolution) => ret = None

Before(x, y) == Rank(size, x) < Rank(size, y)
PendingTent(x) == player_grid[x] = EMPTY /\ solution[x] = TENT

\* C7: with the solution S cached and the live grid L, a call returns
\* (r, c, TENT, n) for the row-major first cell UNKNOWN in L and TENT in S;
\* only if there is none, (r, c, GRASS, n) for the row-major first cell
\* UNKNOWN in L; only if there is none, None.  No GRASS move is returned
\* while a pending TENT cell exists.
C7_TentsBeforeGrass ==
    (Returned /\ Solved) =>
        /\ (\E x \in Cells(size) : PendingTent(x)) =>
              /\ ret # None /\ ret[3] = TENT
              /\ PendingTent(<<ret[1], ret[2]>>)
              /\ \A y \in Cells(size) : Before(y, <<ret[1], ret[2]>>) => ~PendingTent(y)
        /\ ((\A x \in Cells(size) : ~PendingTent(x)) /\ Unknown(player_grid) # {}) =>
              /\ ret # None /\ ret[3] = GRASS
              /\ <<ret[1], ret[2]>> \in Unknown(player_grid)
              /\ \A y \in Unknown(player_grid) : ~Before(y, <<ret[1], ret[2]>>)
        /\ Unknown(player_grid) = {} => ret = None

\* A GRASS move is returned after the tents of the solution were written,
\* with an UNKNOWN cell still ahead of a tent cell in scan order.
C7_Witness ==
    /\ Returned /\ Solved /\ ret # None /\ ret[3] = GRASS
    /\ \E x \in TentsOf(solution) : player_grid[x] = TENT /\ Before(<<ret[1], ret[2]>>, x)
    /\ Cardinality(TentsOf(solution)) = 2

IsEmptyBoardGame ==
    /\ mode = "bot" /\ size = EmptyBoardGame.size /\ trees = EmptyBoardGame.trees
    /\ row_constraints = EmptyBoardGame.rows /\ col_constraints = EmptyBoardGame.cols

EmptyBoardSolved ==
    [x \in Cells(3) |-> IF x = <<0, 1>> THEN TREE ELSE IF x = <<0, 0>> THEN TENT ELSE GRASS]

\* C8: on the 3x3 puzzle with a tree at (0,1), row targets [1,0,0] and column
\* targets [1,0,0] the first move returned is TENT at (0,0), and when the
\* stream ends the live grid has a TENT at (0,0) only and GRASS in the seven
\* other non-tree cells.
C8_EmptyBoardStream ==
    (IsEmptyBoardGame /\ Returned) =>
        /\ LiveTreesOnly => (ret # None /\ <<ret[1], ret[2], ret[3]>> = <<0, 0, TENT>>)
        /\ ret = None => player_grid = EmptyBoardSolved

\* The stream of that puzzle has been followed to its end.
C8_Witness ==
    IsEmptyBoardGame /\ Returned /\ ret = None /\ player_grid = EmptyBoardSolved


\* C12: no step of a get_best_move call (the solve step, the steps of the
\* search, a call served from the cache) changes the game's player_grid,
\* trees, row_constraints or col_constraints.
C12_CallerStateUntouched ==
    [][(mode = "bot" /\ pc \in {"idle", "call", "loop", "ret_true", "ret_false"})
          => UNCHANGED <<player_grid, trees, row_constraints, col_constraints>>]_vars

\* The search has a tent placed on the working grid and the game's grid
\* still holds the trees only.
C12_Witness ==
    /\ mode = "bot" /\ pc = "call" /\ stack # <<>>
    /\ \E x \in Cells(size) : board[x] = TENT
    /\ board # player_grid
    /\ player_grid = TreesOnly(size, trees)

\* C14: the value a get_best_move call returns depends on the puzzle and on
\* the live grid only: whatever calls came before on this game, and whichever
\* bot served them, a value returned earlier on the same live grid is the
\* value returned now.
C14_MoveFunctionOfLiveGrid ==
    (mode = "bot" /\ pc = "returned") =>
        \A h \in history : h[1] = player_grid => h[2] = ret

\* C15: a cached solution grid has no EMPTY cell: every cell that is not a
\* tree is TENT or GRASS.
C15_FullyResolved ==
    Solved => \A x \in Cells(size) : solution[x] # EMPTY

\* C16: a TENT move returned by get_best_move is legal on the live grid it
\* was computed on (is_move_legal: the cell is no tree, none of its 8
\* neighbours is a TENT, its row and its column stay within their targets),
\* the live grid having been changed by applying returned moves only.
C16_TentMovesLegal ==
    (Returned /\ ret # None /\ ret[3] = TENT) =>
        is_move_legal(size, player_grid, row_constraints, col_constraints,
                      ret[1], ret[2], TENT)

\* A TENT move is returned on a live grid that already holds a tent.
C16_Witness ==
    /\ Returned /\ ret # None /\ ret[3] = TENT
    /\ \E x \in Cells(size) : player_grid[x] = TENT

(***************************************************************************)
(* Properties of the search (Spec)                                         *)
(***************************************************************************)
Searching == mode = "bot" /\ pc \in {"call", "loop", "ret_true", "ret_false"}

\* C17: when a _solve_recursive call has returned False, the working grid and
\* both budget vectors are what that call was entered with; and as long as a
\* call runs, every cell that was not EMPTY when it was entered holds what it
\* held then.
C17_ExactUndo ==
    Searching =>
        /\ pc = "ret_false" =>
              /\ board = entered[Len(entered)].board
              /\ row_remaining = entered[Len(entered)].row_remaining
              /\ col_remaining = entered[Len(entered)].col_remaining
        /\ \A i \in 1 .. Len(entered) : \A x \in Cells(size) :
              entered[i].board[x] # EMPTY => board[x] = entered[i].board[x]

\* The root call has returned False after a recursive call of its own (the
\* last call made was given fewer trees than the root call): a tent was placed
\* and taken back, and the working grid is the grid the root call was entered
\* with.
C17_Witness ==
    /\ mode = "bot" /\ pc = "ret_false" /\ stack = <<>>
    /\ Len(arg_remaining) < Len(unresolved_trees(size, trees, board))
    /\ board = entered[1].board
    /\ row_remaining = entered[1].row_remaining

\* All through the search each budget entry is the line's
\* target minus the number of TENT cells the working grid holds in the line.
BudgetsMatchGrid ==
    Searching =>
        /\ \A r \in Range(size) :
              row_remaining[r] = row_constraints[r] - RowTents(size, board, r)
        /\ \A c \in Range(size) :
              col_remaining[c] = col_constraints[c] - ColTents(size, board, c)

\* C18: at the entry of every _solve_recursive call and after every placement
\* and every undo, each budget entry is the line's target minus the number of
\* TENT cells of the line in the working grid, and no budget entry is negative.
C18_BudgetInvariant ==
    /\ BudgetsMatchGrid
    /\ Searching =>
          /\ \A r \in Range(size) : row_remaining[r] >= 0
          /\ \A c \in Range(size) : col_remaining[c] >= 0

\* A placement has been undone and the search stands before the next
\* neighbour, with a tent on the working grid and with a line whose budget
\* is spent.
C18_Witness ==
    /\ mode = "bot" /\ pc = "loop" /\ stack[Len(stack)].k > 0
    /\ \E x \in Cells(size) : board[x] = TENT
    /\ \E r \in Range(size) : row_remaining[r] = 0 /\ row_constraints[r] > 0
    /\ \E c \in Range(size) : col_remaining[c] > 0

\* The domain of a tree in a search state st (grid and budgets): its
\* orthogonal neighbours that are EMPTY, have no TENT among their 8
\* neighbours, and whose row and column budgets are positive.
DomainOf(st, tree) ==
    {x \in Ortho(size, tree) :
        /\ st.board[x] = EMPTY
        /\ \A y \in King(size, x) : st.board[y] # TENT
        /\ st.row_remaining[x[1]] > 0 /\ st.col_remaining[x[2]] > 0}

SearchState == [board |-> board, row_remaining |-> row_remaining,
                col_remaining |-> col_remaining]

\* The tree a running call branches on has the smallest domain among the
\* trees the call was given, no tree of the call has an empty domain, and
\* every cell the call has placed a tent on is in the domain of its tree.
MrvFrames ==
    Searching => \A i \in 1 .. Len(stack) :
        LET f == stack[i]
            size_of(t) == Cardinality(DomainOf(entered[i], t))
        IN  /\ f.best_tree \in SeqRange(f.remaining)
            /\ \A t \in SeqRange(f.remaining) :
                  size_of(t) > 0 /\ size_of(f.best_tree) <= size_of(t)
            /\ SeqRange(f.tried) \subseteq DomainOf(entered[i], f.best_tree)

\* A call entered with a tree whose domain is empty returns False in its
\* first step, the grid, the budgets and the frames being left as they are.
DeadEndStep ==
    (Searching /\ pc = "call"
        /\ \E t \in SeqRange(arg_remaining) : DomainOf(SearchState, t) = {})
    => (pc' = "ret_false" /\ UNCHANGED <<board, row_remaining, col_remaining, stack>>)

\* A call that leaves its branch loop at the loop's end has placed a tent on
\* every cell of the domain of its tree.
ExhaustedStep ==
    (Searching /\ pc = "loop" /\ pc' = "ret_false")
    => SeqRange(stack[Len(stack)].tried)
          = DomainOf(entered[Len(stack)], stack[Len(stack)].best_tree)

\* C19 as stated: MRV choice, immediate failure on an empty domain, and the
\* cells tried for the chosen tree are exactly its domain, for a call that
\* returns True as for a call that returns False.
C19_AsStated ==
    /\ []MrvFrames
    /\ [][DeadEndStep /\ ExhaustedStep]_vars
    /\ [](mode = "bot" /\ pc = "ret_true" =>
            \A i \in 1 .. Len(stack) :
                SeqRange(stack[i].tried) = DomainOf(entered[i], stack[i].best_tree))

\* C19: each call branches on a tree of smallest domain among its remaining
\* trees; a call given a tree with an empty domain returns False at once and
\* places no tent; the cells tried for the chosen tree are cells of its
\* domain, and all of them when the call returns False.
C19_MrvSelection ==
    /\ []MrvFrames
    /\ [][DeadEndStep /\ ExhaustedStep]_vars

\* A call given two trees with domains of different sizes has placed a tent
\* for the tree it chose.
C19_Witness ==
    /\ mode = "bot" /\ pc = "call" /\ stack # <<>>
    /\ LET f == stack[Len(stack)]
       IN  /\ f.tried # <<>>
           /\ \E t \in SeqRange(f.remaining) :
                 Cardinality(DomainOf(entered[Len(stack)], t))
                    > Cardinality(DomainOf(entered[Len(stack)], f.best_tree))

\* The tent call i of the search has on the grid (the last cell it tried).
PlacedBy(i) == stack[i].tried[Len(stack[i].tried)]

\* C20: no tree a call of the search is given, and so no tree a tent is
\* placed for, is orthogonally adjacent to a tent an earlier call of the
\* search has placed: such a tree has been dropped before the decision.
C20_SatisfiedTreesDropped ==
    Searching =>
        /\ \A i \in 2 .. Len(stack) : \A j \in 1 .. i - 1 :
              \A t \in SeqRange(stack[i].remaining) : PlacedBy(j) \notin Ortho(size, t)
        /\ pc = "call" =>
              \A j \in 1 .. Len(stack) :
                 \A t \in SeqRange(arg_remaining) : PlacedBy(j) \notin Ortho(size, t)

BudgetsZero ==
    /\ \A r \in Range(size) : row_remaining[r] = 0
    /\ \A c \in Range(size) : col_remaining[c] = 0

\* The solve step finds no unresolved tree after propagation: it caches the
\* grid when every budget is zero and returns None, caching nothing, otherwise.
RootEmptyStep ==
    (mode = "bot" /\ pc = "idle" /\ solution = NoSolution /\ arg_remaining' = <<>>)
    => /\ pc' = "returned"
       /\ (solution' # NoSolution <=> BudgetsZero')
       /\ (solution' # NoSolution => solution' = board')
       /\ (solution' = NoSolution => ret' = None)

\* A call of the search is given the empty list: it returns True when every
\* budget is zero and False otherwise, and writes nothing.
LeafStep ==
    (Searching /\ pc = "call" /\ arg_remaining = <<>>)
    => /\ pc' = (IF BudgetsZero THEN "ret_true" ELSE "ret_false")
       /\ UNCHANGED <<board, row_remaining, col_remaining, stack>>

\* C21: with no tree remaining, at the root after propagation or at a leaf of
\* the search, the solver succeeds if and only if every row budget and every
\* column budget is exactly zero.
C21_EmptyListIffBudgetsZero == [][RootEmptyStep /\ LeafStep]_vars

\* A leaf of the search has just returned False: its caller was given one
\* tree, a tent is placed for it, and some budget is not zero.
C21_Witness ==
    /\ mode = "bot" /\ pc = "ret_false" /\ arg_remaining = <<>>
    /\ stack # <<>> /\ Len(stack[Len(stack)].remaining) = 1
    /\ Len(entered) = Len(stack) + 1 /\ board = entered[Len(entered)].board
    /\ ~BudgetsZero

(***************************************************************************)
(* Termination of the search (SpecLive)                                    *)
(***************************************************************************)
\* The list the root call of _solve_recursive was given: the root frame's
\* list, or the pending argument while the root call has no frame yet.
UnresolvedTrees == IF stack = <<>> THEN arg_remaining ELSE stack[1].remaining

SearchBounded ==
    Searching =>
        /\ (pc = "call" /\ stack # <<>>
               => Len(arg_remaining) < Len(stack[Len(stack)].remaining))
        /\ \A i \in 2 .. Len(stack) :
              Len(stack[i].remaining) < Len(stack[i - 1].remaining)
        /\ Len(stack) <= Len(UnresolvedTrees)
        /\ \A i \in 1 .. Len(stack) : Len(stack[i].tried) <= 4

\* C30: every _solve_recursive call is handed a list strictly shorter than
\* its caller's, the number of suspended calls never exceeds the number of
\* unresolved trees, no call tries more than four cells, and a search that
\* has started returns.
C30_SearchTerminates == [](SearchBounded) /\ (Searching ~> Returned)

\* A search two calls deep in which a call is at its second cell: a
\* placement was tried, taken back, and another one made.
C30_Witness ==
    /\ Searching /\ Len(stack) >= 2
    /\ \E i \in 1 .. Len(stack) : Len(stack[i].tried) >= 2

(***************************************************************************)
(* The move stream of a solved game (Spec)                                 *)
(***************************************************************************)
\* The moves the stream has returned so far, each with the grid it was
\* returned on; in Spec the caller writes nothing but returned moves.
MovesReturned == {h \in history : h[2] # None}

Streaming == mode = "bot" /\ pc = "returned" /\ solution # NoSolution

\* C29: on a game whose solve succeeded and whose live grid takes nothing but
\* the returned moves, every returned move targets a cell that is EMPTY in
\* the live grid, the stream returns None when and only when no cell is
\* EMPTY, that is after as many moves as the starting grid had EMPTY cells,
\* and the live grid then holds a TENT exactly where the cached grid does.
C29_StreamProgress ==
    Streaming =>
        /\ (ret # None => player_grid[<<ret[1], ret[2]>>] = EMPTY)
        /\ (ret = None <=> Unknown(player_grid) = {})
        /\ (ret = None =>
               /\ Cardinality(MovesReturned)
                     = Cardinality(Unknown(TreesOnly(size, trees)))
               /\ TentsOf(player_grid) = TentsOf(solution))

\* The stream of a game with more than one tree has ended: TENT and GRASS
\* moves have been returned and applied.
C29_Witness ==
    /\ Streaming /\ ret = None /\ Len(trees) >= 2
    /\ \E h \in MovesReturned : h[2][3] = TENT
    /\ \E h \in MovesReturned : h[2][3] = GRASS
    /\ Cardinality(MovesReturned) >= 9

(***************************************************************************)
(* The cached solution under edits of the live grid (SpecEdit)             *)
(***************************************************************************)
\* C28: from the first call whose solve succeeds on, no step changes the
\* cached solution grid and no step enters the solve step again, whatever
\* the caller writes into the live grid between the calls; what a later
\* call returns is the diff of the live grid against the cached grid.
C28_SolveOnce ==
    [][(mode = "bot" /\ solution # NoSolution) =>
          /\ solution' = solution
          /\ pc' \in {"idle", "returned"}
          /\ (pc = "idle" => ret' = diff_move(size, player_grid, solution))]_vars

\* The solution is cached, the caller has written values the cached grid does
\* not hold (a TENT where it holds none, no TENT where it holds one), and a
\* later call has returned.
C28_Witness ==
    /\ mode = "bot" /\ pc = "returned" /\ solution # NoSolution
    /\ Cardinality(history) >= 2
    /\ \E x \in Cells(size) : player_grid[x] = TENT /\ solution[x] # TENT
    /\ \E x \in Cells(size) : player_grid[x] = GRASS /\ solution[x] = TENT

(***************************************************************************)
(* The region step and lines without completion (SpecDnc)                  *)
(***************************************************************************)
\* The row solve_with_dnc enumerates first: row 0 on the whole-board path,
\* the row of the first UNKNOWN cell when there are several components.
FirstRowEnumerated ==
    IF Len(find_connected_components(size, build_constraint_graph(size, dnc_before))) <= 1
    THEN 0
    ELSE FirstCell(size, Unknown(dnc_before))[1]

NoCompletion(line, target) == Len(solve_line_dp(size, target, line, Fixed(line))) = 0

\* C24: when the line enumerator returns the empty list for a line of the
\* grid, propagation stops there: no further cell is committed (here the
\* line is the first one enumerated, so no cell at all is committed and the
\* call reports no progress) instead of the line being skipped and the
\* other lines being worked on.
C24_EmptyListIsHardStop ==
    (DncReturned /\ NoCompletion(RowLine(size, dnc_before, FirstRowEnumerated),
                                  row_constraints[FirstRowEnumerated]))
        => (player_grid = dnc_before /\ ~dnc_progress)

\* One whole-board pass of line enumeration on the grid the call was given.
WholeBoardPass == _apply_dp_to_lines(size, dnc_before, row_constraints, col_constraints)

SameAsWholeBoardPass ==
    player_grid = WholeBoardPass.grid /\ dnc_progress = WholeBoardPass.progress

\* The UNKNOWN cells of the grid the call was given form at most one component.
AtMostOneComponent ==
    \A x \in Unknown(dnc_before) : Closure({x}, Unknown(dnc_before)) = Unknown(dnc_before)

\* C26 as stated: whatever the number of components of UNKNOWN cells (none,
\* one or several), a call of solve_with_dnc leaves the grid and returns the
\* flag that one whole-board pass of _apply_dp_to_lines leaves and returns.
C26_AsStated == (mode = "dnc" /\ pc = "done") => SameAsWholeBoardPass

\* C26 amended: the same for a grid whose UNKNOWN cells form no component or
\* one component.
C26_SingleComponentIsWholeBoard ==
    (mode = "dnc" /\ pc = "done" /\ AtMostOneComponent) => SameAsWholeBoardPass

\* The call was given a grid with one component of UNKNOWN cells, found
\* forced moves in a row and in a column, and left cells UNKNOWN.
C26_Witness ==
    /\ mode = "dnc" /\ pc = "done" /\ AtMostOneComponent /\ dnc_progress
    /\ \E x \in Unknown(dnc_before) : \E y \in Unknown(dnc_before) :
          /\ x[1] # y[1] /\ x[2] # y[2]
          /\ player_grid[x] = TENT /\ player_grid[y] = GRASS
    /\ Unknown(player_grid) # {}

\* C25: while solve_with_dnc works on one of several components, every cell
\* it writes belongs to that component: a forced move on a row or column the
\* component touches is not applied to a cell another component owns.
C25_OnlyOwnCellsWritten ==
    [][(mode = "comp" /\ pc = "comp")
          => \A x \in Cells(size) :
                player_grid'[x] # player_grid[x] => x \in Head(dnc_components)]_vars

(***************************************************************************)
(* Properties of propagation (SpecProp)                                    *)
(***************************************************************************)
\* The valid solutions of the puzzle of the state: one tent of its own next
\* to every tree, no two tents touching, every row and column on target.
ValidSolutions ==
    {T \in TentChoices(trees, SeqRange(trees)) :
        NoTouchingTents(T) /\ CountsMeetTargets(T)}

\* The tent set T extends the grid: it holds every TENT cell and no GRASS cell.
Extends(T, grid) ==
    \A x \in Cells(size) : /\ (grid[x] = TENT => x \in T)
                            /\ (grid[x] = GRASS => x \notin T)

Propagating == mode = "prop" /\ pc = "idle"

\* C22: every value a propagation step commits (a move of one of the
\* heuristics, a line-intersection move of solve_with_dnc) is the value the
\* cell has in every valid solution of the puzzle that extends the grid the
\* step was taken on: every valid solution that extends the grid before the
\* step extends the grid after it.
C22_PropagationSound ==
    [][Propagating =>
          \A T \in ValidSolutions : Extends(T, player_grid) => Extends(T, player_grid')]_vars

\* On a puzzle with more than one tree a call of solve_with_dnc has committed
\* a TENT, cells are still EMPTY, and a valid
\* solution extends the grid.
C22_Witness ==
    /\ Propagating /\ Len(trees) >= 2
    /\ dnc_progress /\ player_grid # dnc_before
    /\ \E x \in Cells(size) : player_grid[x] = TENT /\ dnc_before[x] = EMPTY
    /\ \E x \in Cells(size) : player_grid[x] = EMPTY
    /\ \E T \in ValidSolutions : Extends(T, player_grid)

RECURSIVE execute_bot_move(_, _, _, _, _)
write_bot_move(n, trs, grid, rowc, colc, move) ==
    IF move = None THEN grid
    ELSE execute_bot_move(n, trs, SetCell(grid, <<move[1], move[2]>>, move[3]), rowc, colc)

execute_bot_move(n, trs, grid, rowc, colc) ==
    write_bot_move(n, trs, grid, rowc, colc, SmartBot_get_best_move(n, trs, grid, rowc, colc))

\* No block of get_best_move has a move left on the grid.
NoForcedMoveLeft ==
    /\ Propagating
    /\ \A k \in 1 .. 7 :
          heuristic_moves(size, trees, player_grid, row_constraints, col_constraints)[k] = None

\* C27: from the grid a game starts with, whatever block and whatever order
\* the forced moves are applied in, the grid on which no forced move is left
\* is the one the bot reaches by applying its moves in its own order.
C27_Confluent ==
    NoForcedMoveLeft =>
        player_grid = execute_bot_move(size, trees, TreesOnly(size, trees),
                                       row_constraints, col_constraints)

\* C27 on the puzzles that have a valid solution.
C27_ConfluentWhenSolvable ==
    (NoForcedMoveLeft /\ ValidSolutions # {}) =>
        player_grid = execute_bot_move(size, trees, TreesOnly(size, trees),
                                       row_constraints, col_constraints)

\* Propagation has ended with a TENT and a GRASS committed on a puzzle with
\* more than one tree.
C27_Witness ==
    /\ NoForcedMoveLeft /\ Len(trees) >= 2
    /\ \E x \in Cells(size) : player_grid[x] = TENT
    /\ \E x \in Cells(size) : player_grid[x] = GRASS

(***************************************************************************)
(* The grid invariant under the commits of the region step (SpecDnc)       *)
(***************************************************************************)
\* Every tree cell holds TREE, no two TENT cells are 8-adjacent, no row and
\* no column holds more TENT cells than its target.
GridInvariant(n, treeCells, grid, rowc, colc) ==
    /\ \A t \in treeCells : grid[t] = TREE
    /\ \A x \in Cells(n) : grid[x] = TENT => \A y \in King(n, x) : grid[y] # TENT
    /\ \A r \in Range(n) : RowTents(n, grid, r) <= rowc[r]
    /\ \A c \in Range(n) : ColTents(n, grid, c) <= colc[c]

\* C13: a grid that satisfies the grid invariant when solve_with_dnc is
\* entered satisfies it after the commits of the call: the tree cells still
\* hold TREE, no two tents touch, every row and column is within its target.
C13_CommitsKeepGridInvariant ==
    (DncReturned /\ GridInvariant(size, {x \in Cells(size) : dnc_before[x] = TREE},
                                  dnc_before, row_constraints, col_constraints))
        => GridInvariant(size, {x \in Cells(size) : dnc_before[x] = TREE},
                         player_grid, row_constraints, col_constraints)

(***************************************************************************)
(* Properties of the two heuristic bots (SpecRace)                         *)
(***************************************************************************)
\* C11: once both bots have run out of moves on clones of the same game,
\* the clone SmartBot played on has at most as many EMPTY cells as the clone
\* GreedyBot played on.
C11_SmartResolvesNoFewer ==
    (mode = "race" /\ pc = "raced") =>
        Cardinality(Unknown(smart_grid)) <= Cardinality(Unknown(greedy_grid))

\* Both bots stopped, GreedyBot with EMPTY cells left that SmartBot resolved.
C11_Witness ==
    /\ mode = "race" /\ pc = "raced"
    /\ Unknown(greedy_grid) # {}
    /\ Cardinality(Unknown(smart_grid)) < Cardinality(Unknown(greedy_grid))

====
